---- MODULE Spec2Model ----
(***************************************************************************)
(* Outbound email dispatch and delivery tracking of the Cold Email         *)
(* Formatter: the Mongoose-backed routes (server/routes/emails.js), the    *)
(* file-logged sender (server/emailServer.js) and the db.json server       *)
(* (server.js).                                                            *)
(*                                                                         *)
(* Strings are sequences of tokens.  "N" is the literal token {name},      *)
(* "<t>" is one markup tag, every other token is one plain character.      *)
(* An optional value is <<>> (absent) or <<v>> (present).                  *)
(***************************************************************************)
EXTENDS Integers, Sequences, FiniteSets, TLC

(* ---------------------------- bounds ----------------------------------- *)
MaxRecipients == 2
MaxTpl == 2

(* ------------------------ program constants ---------------------------- *)
DefaultDelay == 1000
SubjectMaxLength == 200

None == <<>>
Some(x) == <<x>>

(* A number as JavaScript computes it: NaN, an integer, or an integer and  *)
(* a half.                                                                 *)
NaN == [nan |-> TRUE, val |-> 0, frac |-> FALSE]

Num(n) == [nan |-> FALSE, val |-> n, frac |-> FALSE]

(* A port as it arrives in a request body: absent, or text made of leading *)
(* digits (lead) followed by a tail ("", ".5" or "x"), or text without     *)
(* leading digits.                                                         *)
NoPort == [present |-> FALSE, digits |-> FALSE, lead |-> 0, tail |-> ""]

PortText(lead, tail) == [present |-> TRUE, digits |-> TRUE, lead |-> lead, tail |-> tail]

PortWord == [present |-> TRUE, digits |-> FALSE, lead |-> 0, tail |-> "x"]

(* parseInt: the leading digits, NaN when there are none.                  *)
ParseInt(v) == IF v.present /\ v.digits THEN Num(v.lead) ELSE NaN

(* Number(v), the cast of a Number path: the whole text must be a number.  *)
ToNumber(v) ==
  IF v.present /\ v.digits /\ v.tail \in {"", ".5"}
  THEN [nan |-> FALSE, val |-> v.lead, frac |-> (v.tail = ".5")]
  ELSE NaN

RECURSIVE SeqsUpTo(_, _)
SeqsUpTo(S, n) ==
  IF n = 0 THEN {<<>>}
  ELSE LET shorter == SeqsUpTo(S, n - 1)
       IN shorter \cup {Append(s, x) : s \in {t \in shorter : Len(t) = n - 1}, x \in S}

(* ----------------------- string functions ------------------------------ *)
(* String.prototype.replace with a string pattern: first occurrence only.  *)
RECURSIVE ReplaceFirst(_, _)
ReplaceFirst(s, name) ==
  IF s = <<>> THEN <<>>
  ELSE IF Head(s) = "N" THEN name \o Tail(s)
  ELSE <<Head(s)>> \o ReplaceFirst(Tail(s), name)

(* String.prototype.replace with /{name}/g: every occurrence.              *)
RECURSIVE ReplaceAll(_, _)
ReplaceAll(s, name) ==
  IF s = <<>> THEN <<>>
  ELSE IF Head(s) = "N" THEN name \o ReplaceAll(Tail(s), name)
  ELSE <<Head(s)>> \o ReplaceAll(Tail(s), name)

(* htmlContent.replace(/<[^>]*>/g, '')                                     *)
RECURSIVE StripTags(_)
StripTags(s) ==
  IF s = <<>> THEN <<>>
  ELSE IF Head(s) = "<t>" THEN StripTags(Tail(s))
  ELSE <<Head(s)>> \o StripTags(Tail(s))

HasToken(s) == \E k \in 1..Len(s) : s[k] = "N"

(* recipient.name || ''                                                    *)
NameOf(recipient) == recipient.name

SubjectFor(subject, recipient) == ReplaceFirst(subject, NameOf(recipient))

HtmlFor(htmlContent, recipient) == ReplaceAll(htmlContent, NameOf(recipient))

(* textContent ? textContent.replace(/{name}/g, ...) : null                *)
RecordTextFor(textContent, recipient) ==
  IF textContent # <<>> THEN ReplaceAll(textContent, NameOf(recipient)) ELSE <<>>

(* textContent ? textContent.replace(/{name}/g, ...)                       *)
(*             : htmlContent.replace(/<[^>]*>/g, '')                       *)
MailTextFor(textContent, htmlContent, recipient) ==
  IF textContent # <<>> THEN ReplaceAll(textContent, NameOf(recipient))
  ELSE StripTags(htmlContent)

EffectiveDelayIgnoresDefault(delay) == IF delay = None THEN 0 ELSE delay[1]

(* delay = 1000 in the destructuring: the default applies to undefined.    *)
EffectiveDelay(delay) == IF delay = None THEN DefaultDelay ELSE delay[1]

(* --------------------------- state ------------------------------------- *)
VARIABLES
  companies,   \* Company collection (Mongoose)
  emails,      \* Email collection (Mongoose): the delivery ledger, in insertion order
  req,         \* body of the request being handled
  pc,          \* position of the handler
  i,           \* loop index of send-bulk (1-based)
  results,     \* results object of send-bulk
  cur,         \* emailRecord / info / error of the current iteration
  inflight,    \* recipient indices whose sendMail has not settled
  outbox,      \* mailOptions handed to transporter.sendMail, in call order
  pauses,      \* delay pauses taken: <<index just processed, ms>>
  res,         \* HTTP response
  clock,       \* new Date()
  server,      \* which of the server programs is the running process
  logFile,     \* content of email-logs.json (emailServer.js)
  spc,         \* position of the /api/send-email handler
  sreq,        \* body of the /api/send-email request being handled
  slogId,      \* logId of the try block
  sinfo,       \* outcome of transporter.sendMail for the request
  sres,        \* HTTP response of /api/send-email
  nextLogId,   \* generateLogId(): ids are unique
  handled,     \* number of /api/send-email requests and log calls so far
  db,          \* content of db.json (server.js)
  procs,       \* server.js handlers suspended at an await, with their snapshot
  responses,   \* success responses server.js has sent
  now,         \* Date.now()
  ops,         \* number of server.js requests started
  dres,        \* last response of server.js to an authenticated endpoint
  net,         \* nodemailer calls made so far, in call order
  cprocs,      \* companies-router handlers suspended at an await
  cres,        \* last response of the companies router
  cops,        \* number of companies-router requests started
  lhits,       \* express-rate-limit stores: hit count and reset time per limiter and client
  ltime,       \* minutes since the servers started
  served,      \* send requests that reached their handler in the current minute
  lres,        \* last response of a rate-limited send request
  lcount,      \* number of rate-limited requests made
  hemails,     \* the email records the history and statistics queries read
  hquery,      \* req.query of the history or statistics request answered last
  hres,        \* its response
  ucompany,    \* the stored company a PUT names
  ubody,       \* req.body of the PUT
  ures,        \* its response
  vpc,         \* EmailLogs: unmounted, mounted or gone
  selectedCompany, \* EmailLogs: the company filter
  vemails,     \* EmailLogs: the emails state, named by the request whose list it is
  loading,     \* EmailLogs: the loading state
  abortController, \* EmailLogs: abortControllerRef.current
  requestIdRef, \* EmailLogs: requestIdRef.current
  vflight,     \* EmailLogs: the fetches that have not settled
  vissued      \* EmailLogs: the email requests issued, in order, with their outcome

routeVars == <<companies, emails, req, pc, i, results, cur, inflight, outbox, pauses, res, clock>>

logVars == <<logFile, spc, sreq, slogId, sinfo, sres, nextLogId, handled>>

dbVars == <<db, procs, responses, now, ops, dres>>

coVars == <<cprocs, cres, cops>>

limVars == <<lhits, ltime, served, lres, lcount>>

histVars == <<hemails, hquery, hres>>

updVars == <<ucompany, ubody, ures>>

viewVars == <<vpc, selectedCompany, vemails, loading, abortController, requestIdRef, vflight, vissued>>

auxVars == <<limVars, histVars, updVars, viewVars>>

vars == <<routeVars, logVars, dbVars, coVars, auxVars, server, net>>

(* A step of one server program leaves the other programs' state alone;    *)
(* a step that calls nodemailer appends its calls to net.                  *)
RoutesStep == server = "routes" /\ UNCHANGED <<server, logVars, dbVars, coVars, auxVars, net>>

RoutesIO(calls) ==
  server = "routes" /\ net' = net \o calls /\ UNCHANGED <<server, logVars, dbVars, coVars, auxVars>>

LogStep == server = "emailServer" /\ UNCHANGED <<server, routeVars, dbVars, coVars, auxVars, net>>

LogIO(calls) ==
  server = "emailServer" /\ net' = net \o calls /\ UNCHANGED <<server, routeVars, dbVars, coVars, auxVars>>

LogApiStep == server = "logApi" /\ UNCHANGED <<server, routeVars, dbVars, coVars, auxVars, net>>

DBStep == server = "server" /\ UNCHANGED <<server, routeVars, logVars, coVars, auxVars, net>>

DBIO(calls) ==
  server = "server" /\ net' = net \o calls /\ UNCHANGED <<server, routeVars, logVars, coVars, auxVars>>

(* The companies router shares the Company collection with the emails      *)
(* router and touches nothing else of it.                                  *)
CoStep ==
  /\ server = "companies"
  /\ UNCHANGED <<server, logVars, dbVars, auxVars, net, emails, req, pc, i, results, cur, inflight,
                 outbox, pauses, res, clock>>

Caller == "u1"

(* Stored Company documents satisfy the schema: a custom company has a     *)
(* host and a port in 1..65535; useSSL and useTLS are booleans.  A name is *)
(* a sequence of characters, " " a blank.                                  *)
CompanySeed ==
  { [id |-> "c1", user |-> "u1", isActive |-> TRUE,  name |-> <<"a">>, type |-> "gmail",
     smtpHost |-> "", smtpPort |-> NaN, useSSL |-> TRUE, useTLS |-> TRUE],
    [id |-> "c2", user |-> "u2", isActive |-> TRUE,  name |-> <<"a">>, type |-> "custom",
     smtpHost |-> "h", smtpPort |-> Num(587), useSSL |-> FALSE, useTLS |-> TRUE],
    [id |-> "c3", user |-> "u1", isActive |-> FALSE, name |-> <<"b">>, type |-> "yahoo",
     smtpHost |-> "", smtpPort |-> NaN, useSSL |-> TRUE, useTLS |-> TRUE],
    [id |-> "c4", user |-> "u1", isActive |-> TRUE,  name |-> <<"c">>, type |-> "custom",
     smtpHost |-> "h", smtpPort |-> Num(465), useSSL |-> FALSE, useTLS |-> TRUE],
    [id |-> "c5", user |-> "u1", isActive |-> TRUE,  name |-> <<"d">>, type |-> "custom",
     smtpHost |-> "h", smtpPort |-> Num(587), useSSL |-> TRUE, useTLS |-> FALSE] }

RecipientValues ==
  { [email |-> "e1", name |-> <<"A">>],
    [email |-> "e2", name |-> <<>>],
    [email |-> "",   name |-> <<"A">>] }

Subjects == SeqsUpTo({"N", "a"}, MaxTpl)
Htmls == SeqsUpTo({"N", "<t>"}, MaxTpl)
Texts == SeqsUpTo({"N"}, MaxTpl)
Delays == {None, Some(0)}
CompanyIds == {"", "c1", "c2", "c3", "c9"}

SendCompanyIds == CompanyIds \cup {"c4", "c5"}

SendRequests ==
  [ kind : {"send"},
    companyId : SendCompanyIds,
    to : {"", "e1"},
    subject : {<<>>, <<"a">>},
    htmlContent : {<<>>, <<"<t>", "a">>},
    textContent : {<<>>, <<"a">>} ]

BulkRequests ==
  [ kind : {"bulk"},
    companyId : CompanyIds,
    recipients : SeqsUpTo(RecipientValues, MaxRecipients),
    subject : Subjects,
    htmlContent : Htmls,
    textContent : Texts,
    delay : Delays ]

NoReq == [kind |-> "none"]
NoCur == [stage |-> "none"]
NoRes == [status |-> 0]
EmptyResults == [sent |-> 0, failed |-> 0, emails |-> <<>>]

InitRouteVars ==
  /\ companies = CompanySeed
  /\ emails = <<>>
  /\ req = NoReq
  /\ pc = "idle"
  /\ i = 0
  /\ results = EmptyResults
  /\ cur = NoCur
  /\ inflight = {}
  /\ outbox = <<>>
  /\ pauses = <<>>
  /\ res = NoRes
  /\ clock = 1

(* The lookup without the isActive filter.                                 *)
FindCompanyAnyState(companyId) ==
  {c \in companies : c.id = companyId /\ c.user = Caller}

(* Company.findOne({_id, user: req.user.userId, isActive: true})           *)
FindActiveCompany(companyId) ==
  {c \in companies : c.id = companyId /\ c.user = Caller /\ c.isActive}

(* new Email({...}) of the try block: status takes the schema default.     *)
NewEmailRecord(r, recipient) ==
  [ user |-> Caller,
    company |-> r.companyId,
    to |-> recipient.email,
    subject |-> SubjectFor(r.subject, recipient),
    htmlContent |-> HtmlFor(r.htmlContent, recipient),
    textContent |-> RecordTextFor(r.textContent, recipient),
    status |-> "pending",
    sentAt |-> None,
    messageId |-> None,
    errorMessage |-> None ]

MailOptions(r, recipient) ==
  [ to |-> recipient.email,
    subject |-> SubjectFor(r.subject, recipient),
    html |-> HtmlFor(r.htmlContent, recipient),
    text |-> MailTextFor(r.textContent, r.htmlContent, recipient) ]

(* Schema validation run by save(): required strings must be non-empty,    *)
(* the subject is at most 200 characters.                                  *)
ValidEmail(rec) ==
  /\ rec.to # ""
  /\ rec.subject # <<>>
  /\ Len(rec.subject) <= SubjectMaxLength
  /\ rec.htmlContent # <<>>


(* The argument of nodemailer.createTransporter in the switch on           *)
(* emailSettings.type; a service transport takes nodemailer's defaults.    *)
RoutesTransportOptions(c) ==
  IF c.type = "custom"
  THEN [service |-> "", host |-> c.smtpHost, port |-> c.smtpPort,
        secure |-> c.useSSL, rejectUnauthorized |-> c.useTLS]
  ELSE [service |-> c.type, host |-> "", port |-> NaN,
        secure |-> FALSE, rejectUnauthorized |-> TRUE]

NoCompany == [type |-> "none"]

TheCompany(companyId) == CHOOSE c \in FindActiveCompany(companyId) : TRUE

(* A nodemailer call: the server, the number of the request that made it   *)
(* and, for a session, the company it was resolved from.                   *)
CreateTransportCall(srv, rq, company, options) ==
  [srv |-> srv, rq |-> rq, op |-> "createTransport", company |-> company, options |-> options]

VerifyCall(srv, rq) == [srv |-> srv, rq |-> rq, op |-> "verify"]

SendMailCall(srv, rq, to) == [srv |-> srv, rq |-> rq, op |-> "sendMail", to |-> to]

(* The session factory and sendMail belong to the nodemailer library, not  *)
(* to this repository: the factory call may return a session or throw,     *)
(* sendMail may resolve with a message id or reject; a message without a   *)
(* recipient address is always rejected.                                   *)
CanDeliver(mail) == mail.to # ""

(* --------------------- POST /api/emails/send-bulk ---------------------- *)
BulkInvalid(r) ==
  \/ r.companyId = ""
  \/ Len(r.recipients) = 0
  \/ r.subject = <<>>
  \/ r.htmlContent = <<>>

BulkReject ==
  /\ RoutesStep
  /\ pc = "idle"
  /\ \E r \in BulkRequests :
       /\ BulkInvalid(r)
       /\ req' = r
  /\ res' = [status |-> 400]
  /\ pc' = "done"
  /\ UNCHANGED <<companies, emails, i, results, cur, inflight, outbox, pauses, clock>>

BulkAccept ==
  /\ RoutesStep
  /\ pc = "idle"
  /\ \E r \in BulkRequests :
       /\ ~BulkInvalid(r)
       /\ req' = r
  /\ pc' = "lookup"
  /\ UNCHANGED <<companies, emails, i, results, cur, inflight, outbox, pauses, res, clock>>

BulkCompanyNotFound ==
  /\ RoutesStep
  /\ pc = "lookup"
  /\ req.kind = "bulk"
  /\ FindActiveCompany(req.companyId) = {}
  /\ res' = [status |-> 404]
  /\ pc' = "done"
  /\ UNCHANGED <<companies, emails, req, i, results, cur, inflight, outbox, pauses, clock>>

(* nodemailer.createTransporter(...) throws: the outer catch answers 500.  *)
BulkTransportThrows ==
  /\ RoutesStep
  /\ pc = "lookup"
  /\ req.kind = "bulk"
  /\ FindActiveCompany(req.companyId) # {}
  /\ res' = [status |-> 500, error |-> "Failed to send bulk emails"]
  /\ pc' = "done"
  /\ UNCHANGED <<companies, emails, req, i, results, cur, inflight, outbox, pauses, clock>>

BulkEnterLoop ==
  /\ server = "routes"
  /\ pc = "lookup"
  /\ req.kind = "bulk"
  /\ FindActiveCompany(req.companyId) # {}
  /\ results' = EmptyResults
  /\ i' = 1
  /\ pc' = "loop"
  /\ UNCHANGED <<companies, emails, req, cur, inflight, outbox, pauses, res, clock>>
  /\ RoutesIO(<<CreateTransportCall("routes", 1, TheCompany(req.companyId),
                                    RoutesTransportOptions(TheCompany(req.companyId)))>>)

(* The send is started without awaiting it: the loop moves on at once.     *)
BulkStartSendNoAwait ==
  /\ server = "routes"
  /\ pc = "loop"
  /\ i <= Len(req.recipients)
  /\ LET recipient == req.recipients[i]
     IN /\ cur' = [stage |-> "try", rec |-> NewEmailRecord(req, recipient)]
        /\ outbox' = Append(outbox, MailOptions(req, recipient))
  /\ inflight' = inflight \cup {i}
  /\ i' = i + 1
  /\ pc' = "loop"
  /\ UNCHANGED <<companies, emails, req, results, pauses, res, clock>>
  /\ RoutesIO(<<SendMailCall("routes", 1, req.recipients[i].email)>>)

(* Loop head and the try block up to `await transporter.sendMail`.         *)
BulkStartSend ==
  /\ server = "routes"
  /\ pc = "loop"
  /\ i <= Len(req.recipients)
  /\ LET recipient == req.recipients[i]
     IN /\ cur' = [stage |-> "try", rec |-> NewEmailRecord(req, recipient)]
        /\ outbox' = Append(outbox, MailOptions(req, recipient))
  /\ inflight' = inflight \cup {i}
  /\ pc' = "sending"
  /\ UNCHANGED <<companies, emails, req, i, results, pauses, res, clock>>
  /\ RoutesIO(<<SendMailCall("routes", 1, req.recipients[i].email)>>)

(* sendMail resolved: the record is marked sent and save() is awaited.     *)
BulkSendOk ==
  /\ RoutesStep
  /\ pc = "sending"
  /\ CanDeliver(outbox[Len(outbox)])
  /\ inflight' = inflight \ {i}
  /\ cur' = [stage |-> "try",
             rec |-> [cur.rec EXCEPT !.status = "sent",
                                     !.sentAt = Some(clock),
                                     !.messageId = Some(i)]]
  /\ clock' = clock + 1
  /\ pc' = "saving"
  /\ UNCHANGED <<companies, emails, req, i, results, outbox, pauses, res>>

(* The failed record without its error text.                               *)
FailedEmailRecordNoMessage(r, recipient, err) ==
  [NewEmailRecord(r, recipient) EXCEPT !.status = "failed"]

(* The failed record the inner catch builds from the recipient and error.  *)
FailedEmailRecord(r, recipient, err) ==
  [NewEmailRecord(r, recipient) EXCEPT !.status = "failed", !.errorMessage = Some(err)]

(* sendMail rejected: the inner catch builds the failed record and awaits  *)
(* its save().                                                             *)
BulkSendFail ==
  /\ RoutesStep
  /\ pc = "sending"
  /\ inflight' = inflight \ {i}
  /\ cur' = [stage |-> "catch", rec |-> FailedEmailRecord(req, req.recipients[i], "smtp error")]
  /\ clock' = clock + 1
  /\ pc' = "catchSaving"
  /\ UNCHANGED <<companies, emails, req, i, results, outbox, pauses, res>>

AfterIterationAlwaysDelay(idx, n) == "delay"

(* if (i < recipients.length - 1) await delay, with the 0-based index.     *)
AfterIteration(idx, n) == IF idx < n THEN "delay" ELSE "respond"

BulkSaveOk ==
  /\ RoutesStep
  /\ pc = "saving"
  /\ ValidEmail(cur.rec)
  /\ emails' = Append(emails, cur.rec)
  /\ results' = [sent |-> results.sent + 1,
                 failed |-> results.failed,
                 emails |-> Append(results.emails,
                              [to |-> cur.rec.to, status |-> "sent", messageId |-> cur.rec.messageId])]
  /\ pc' = AfterIteration(i, Len(req.recipients))
  /\ UNCHANGED <<companies, req, i, cur, inflight, outbox, pauses, res, clock>>

(* save() rejected (validation error or store unavailable) after the send  *)
(* succeeded: the inner catch records the recipient as failed.             *)
BulkSaveFail ==
  /\ RoutesStep
  /\ pc = "saving"
  /\ cur' = [stage |-> "catch",
             rec |-> FailedEmailRecord(req, req.recipients[i],
                        IF ValidEmail(cur.rec) THEN "store error" ELSE "validation error")]
  /\ pc' = "catchSaving"
  /\ UNCHANGED <<companies, emails, req, i, results, inflight, outbox, pauses, res, clock>>

(* The failed outcome is pushed but results.failed is not incremented.     *)
BulkCatchSaveOkUncounted ==
  /\ RoutesStep
  /\ pc = "catchSaving"
  /\ ValidEmail(cur.rec)
  /\ emails' = Append(emails, cur.rec)
  /\ results' = [results EXCEPT !.emails = Append(results.emails,
                              [to |-> cur.rec.to, status |-> "failed", error |-> cur.rec.errorMessage])]
  /\ pc' = AfterIteration(i, Len(req.recipients))
  /\ UNCHANGED <<companies, req, i, cur, inflight, outbox, pauses, res, clock>>

BulkCatchSaveOk ==
  /\ RoutesStep
  /\ pc = "catchSaving"
  /\ ValidEmail(cur.rec)
  /\ emails' = Append(emails, cur.rec)
  /\ results' = [sent |-> results.sent,
                 failed |-> results.failed + 1,
                 emails |-> Append(results.emails,
                              [to |-> cur.rec.to, status |-> "failed", error |-> cur.rec.errorMessage])]
  /\ pc' = AfterIteration(i, Len(req.recipients))
  /\ UNCHANGED <<companies, req, i, cur, inflight, outbox, pauses, res, clock>>

(* save() inside the inner catch rejected: the error leaves the loop and   *)
(* the outer catch answers 500.                                            *)
BulkCatchSaveFail ==
  /\ RoutesStep
  /\ pc = "catchSaving"
  /\ res' = [status |-> 500, error |-> "Failed to send bulk emails"]
  /\ pc' = "done"
  /\ UNCHANGED <<companies, emails, req, i, results, cur, inflight, outbox, pauses, clock>>

BulkDelayDone ==
  /\ RoutesStep
  /\ pc = "delay"
  /\ pauses' = Append(pauses, [after |-> i, ms |-> EffectiveDelay(req.delay)])
  /\ i' = i + 1
  /\ clock' = clock + 1
  /\ pc' = "loop"
  /\ UNCHANGED <<companies, emails, req, results, cur, inflight, outbox, res>>

BulkRespond ==
  /\ RoutesStep
  /\ pc = "respond"
  /\ res' = [status |-> 200, results |-> results]
  /\ pc' = "done"
  /\ UNCHANGED <<companies, emails, req, i, results, cur, inflight, outbox, pauses, clock>>

(* ------------------------ POST /api/emails/send ------------------------ *)
SendInvalid(r) ==
  \/ r.companyId = ""
  \/ r.to = ""
  \/ r.subject = <<>>
  \/ r.htmlContent = <<>>

SendReject ==
  /\ RoutesStep
  /\ pc = "idle"
  /\ \E r \in SendRequests :
       /\ SendInvalid(r)
       /\ req' = r
  /\ res' = [status |-> 400]
  /\ pc' = "done"
  /\ UNCHANGED <<companies, emails, i, results, cur, inflight, outbox, pauses, clock>>

SendAccept ==
  /\ RoutesStep
  /\ pc = "idle"
  /\ \E r \in SendRequests :
       /\ ~SendInvalid(r)
       /\ req' = r
  /\ pc' = "lookup"
  /\ UNCHANGED <<companies, emails, i, results, cur, inflight, outbox, pauses, res, clock>>

SendCompanyNotFound ==
  /\ RoutesStep
  /\ pc = "lookup"
  /\ req.kind = "send"
  /\ FindActiveCompany(req.companyId) = {}
  /\ res' = [status |-> 404]
  /\ pc' = "done"
  /\ UNCHANGED <<companies, emails, req, i, results, cur, inflight, outbox, pauses, clock>>

(* new Email({...}) of router.post('/send')                                *)
SingleEmailRecord(r) ==
  [ user |-> Caller,
    company |-> r.companyId,
    to |-> r.to,
    subject |-> r.subject,
    htmlContent |-> r.htmlContent,
    textContent |-> r.textContent,
    status |-> "pending",
    sentAt |-> None,
    messageId |-> None,
    errorMessage |-> None ]

(* text: textContent || htmlContent.replace(/<[^>]*>/g, '')                *)
SingleMailOptions(r) ==
  [ to |-> r.to,
    subject |-> r.subject,
    html |-> r.htmlContent,
    text |-> IF r.textContent # <<>> THEN r.textContent ELSE StripTags(r.htmlContent) ]

(* The catch block of router.post('/send') reads emailRecord, a const of   *)
(* the try block that is not in scope there: the read throws a             *)
(* ReferenceError, nothing is saved and no response is written.            *)
SendCatch ==
  /\ pc' = "crashed"
  /\ UNCHANGED <<companies, emails, req, i, results, pauses, res>>

SendTransportThrows ==
  /\ RoutesStep
  /\ pc = "lookup"
  /\ req.kind = "send"
  /\ FindActiveCompany(req.companyId) # {}
  /\ cur' = [stage |-> "catch", rec |-> SingleEmailRecord(req)]
  /\ SendCatch
  /\ UNCHANGED <<inflight, outbox, clock>>

SendStartSend ==
  /\ server = "routes"
  /\ pc = "lookup"
  /\ req.kind = "send"
  /\ FindActiveCompany(req.companyId) # {}
  /\ cur' = [stage |-> "try", rec |-> SingleEmailRecord(req)]
  /\ outbox' = Append(outbox, SingleMailOptions(req))
  /\ inflight' = inflight \cup {1}
  /\ pc' = "sendSending"
  /\ UNCHANGED <<companies, emails, req, i, results, pauses, res, clock>>
  /\ RoutesIO(<<CreateTransportCall("routes", 1, TheCompany(req.companyId),
                                    RoutesTransportOptions(TheCompany(req.companyId))),
                SendMailCall("routes", 1, req.to)>>)

SendSendOk ==
  /\ RoutesStep
  /\ pc = "sendSending"
  /\ CanDeliver(outbox[Len(outbox)])
  /\ inflight' = inflight \ {1}
  /\ cur' = [stage |-> "try",
             rec |-> [cur.rec EXCEPT !.status = "sent",
                                     !.sentAt = Some(clock),
                                     !.messageId = Some(1)]]
  /\ clock' = clock + 1
  /\ pc' = "sendSaving"
  /\ UNCHANGED <<companies, emails, req, i, results, outbox, pauses, res>>

SendSendFail ==
  /\ RoutesStep
  /\ pc = "sendSending"
  /\ inflight' = inflight \ {1}
  /\ cur' = [stage |-> "catch", rec |-> cur.rec]
  /\ clock' = clock + 1
  /\ SendCatch
  /\ UNCHANGED outbox

SendSaveOk ==
  /\ RoutesStep
  /\ pc = "sendSaving"
  /\ ValidEmail(cur.rec)
  /\ emails' = Append(emails, cur.rec)
  /\ res' = [status |-> 200, messageId |-> cur.rec.messageId]
  /\ pc' = "done"
  /\ UNCHANGED <<companies, req, i, results, cur, inflight, outbox, pauses, clock>>

SendSaveFail ==
  /\ RoutesStep
  /\ pc = "sendSaving"
  /\ cur' = [stage |-> "catch", rec |-> cur.rec]
  /\ SendCatch
  /\ UNCHANGED <<inflight, outbox, clock>>

(* ===================== server/emailServer.js =========================== *)
(* Tokens of the strings this server validates: "c" a plain character,     *)
(* "@", ".", " " themselves, "js" one occurrence of `javascript:`.         *)
MaxRequests == 2
InputMaxLength == 1000
SubjectInputMaxLength == 200
EmailMaxLength == 254
PortMax == 65535

Positions(s, t) == {k \in 1..Len(s) : s[k] = t}

(* /^[^\s@]+@[^\s@]+\.[^\s@]+$/.test(email) && email.length <= 254         *)
ValidateEmail(email) ==
  /\ Cardinality(Positions(email, "@")) = 1
  /\ Positions(email, " ") = {}
  /\ LET at == CHOOSE k \in Positions(email, "@") : TRUE
     IN /\ at > 1
        /\ \E d \in Positions(email, ".") : d > at + 1 /\ d < Len(email)
  /\ Len(email) <= EmailMaxLength

(* validateInput: null, undefined and '' pass; otherwise the length bound  *)
(* and the injection patterns decide.                                      *)
ValidateInput(input, maxLength) ==
  \/ input = <<>>
  \/ /\ Len(input) <= maxLength
     /\ Positions(input, "js") = {}

RECURSIVE SanitizeInput(_)
SanitizeInput(input) ==
  IF input = <<>> THEN <<>>
  ELSE IF Head(input) = "js" THEN SanitizeInput(Tail(input))
  ELSE <<Head(input)>> \o SanitizeInput(Tail(input))

EmptyLogs ==
  [totalEmails |-> 0, successfulEmails |-> 0, failedEmails |-> 0, pendingEmails |-> 0, logs |-> <<>>]

CountStatus(logs, st) == Cardinality({k \in 1..Len(logs) : logs[k].status = st})

(* logEmailAttempt that counts the new entry in totalEmails only.          *)
LogEmailAttemptTotalOnly(file, id, emailData) ==
  LET logEntry == [ id |-> id,
                    status |-> "pending",
                    to |-> SanitizeInput(emailData.to),
                    subject |-> SanitizeInput(emailData.subject),
                    password |-> emailData.password,
                    messageId |-> None,
                    error |-> None ]
      logs == Append(file.logs, logEntry)
  IN [file EXCEPT !.logs = logs,
                  !.totalEmails = Len(logs)]

(* logEmailAttempt when loadLogs and saveLogs succeed: the file it writes. *)
LogEmailAttempt(file, id, emailData) ==
  LET logEntry == [ id |-> id,
                    status |-> "pending",
                    to |-> SanitizeInput(emailData.to),
                    subject |-> SanitizeInput(emailData.subject),
                    password |-> emailData.password,
                    messageId |-> None,
                    error |-> None ]
      logs == Append(file.logs, logEntry)
  IN [file EXCEPT !.logs = logs,
                  !.totalEmails = Len(logs),
                  !.pendingEmails = CountStatus(logs, "pending")]

(* updateLogStatus when loadLogs and saveLogs succeed: an unknown id       *)
(* leaves the file alone.                                                  *)
UpdateLogStatus(file, logId, status, messageId, error) ==
  IF \E k \in 1..Len(file.logs) : file.logs[k].id = logId
  THEN LET k == CHOOSE j \in 1..Len(file.logs) : file.logs[j].id = logId
           logs == [file.logs EXCEPT
                      ![k] = [@ EXCEPT
                                !.status = status,
                                !.messageId = IF messageId # None THEN SanitizeInput(messageId) ELSE @,
                                !.error = IF error # None THEN SanitizeInput(error) ELSE @]]
       IN [file EXCEPT !.logs = logs,
                       !.successfulEmails = CountStatus(logs, "success"),
                       !.failedEmails = CountStatus(logs, "failed"),
                       !.pendingEmails = CountStatus(logs, "pending")]
  ELSE file

Addresses == {<<"c", "@", "c", ".", "c">>, <<"c", "@", "c">>}
SubjectInputs == {<<"c">>, <<"js">>}
HostInputs == {<<>>, <<"c">>}
PortInputs == { [isInt |-> TRUE, val |-> 0], [isInt |-> TRUE, val |-> 587],
                [isInt |-> TRUE, val |-> 65536], [isInt |-> FALSE, val |-> 587] }

(* The credential headers of a request: Authorization (absent, or a       *)
(* scheme and a token) and x-api-key (absent when "").                     *)
NoAuthorization == [present |-> FALSE, bearer |-> FALSE, token |-> ""]

NoCredential == [authorization |-> NoAuthorization, apiKey |-> ""]

AdminBearer ==
  [authorization |-> [present |-> TRUE, bearer |-> TRUE, token |-> "admin"], apiKey |-> ""]

Credentials ==
  [ authorization : { NoAuthorization,
                      [present |-> TRUE, bearer |-> TRUE, token |-> "admin"],
                      [present |-> TRUE, bearer |-> TRUE, token |-> "x"],
                      [present |-> TRUE, bearer |-> FALSE, token |-> "admin"] },
    apiKey : {"", "secret", "x"} ]

ADMIN_TOKEN == "admin"
API_SECRET == "secret"

(* authenticateRequest: 0 stands for next().                               *)
AuthenticateRequest(h) ==
  IF ~h.authorization.present /\ h.apiKey = "" THEN 401
  ELSE IF h.authorization.present /\ h.authorization.bearer
          /\ h.authorization.token = ADMIN_TOKEN THEN 0
  ELSE IF h.apiKey # "" /\ h.apiKey = API_SECRET THEN 0
  ELSE 401

SrvRequests ==
  [ headers : {NoCredential, AdminBearer},
    hasConfig : BOOLEAN,
    hasData : BOOLEAN,
    from : Addresses,
    to : Addresses,
    subject : SubjectInputs,
    password : {"secret"},
    host : HostInputs,
    port : PortInputs,
    hasAuth : BOOLEAN ]

(* File-system outcomes of one logEmailAttempt / updateLogStatus call.     *)
FsOutcomes == {"ok", "loadFails", "saveFails"}

SmtpErrors ==
  { [code |-> "EAUTH", message |-> <<"c">>],
    [code |-> "", message |-> <<"c", "c">>] }

SaveLogsError == [code |-> "", message |-> <<"s">>]
LoadLogsError == [code |-> "", message |-> <<"l">>]
TypeErrorAuth == [code |-> "", message |-> <<"t">>]

InitLogVars ==
  /\ logFile = EmptyLogs
  /\ spc = "idle"
  /\ sreq = NoReq
  /\ slogId = 0
  /\ sinfo = "none"
  /\ sres = NoRes
  /\ nextLogId = 1
  /\ handled = 0

SrvInvalid(r) ==
  \/ ~r.hasConfig
  \/ ~r.hasData
  \/ ~ValidateEmail(r.from)
  \/ ~ValidateEmail(r.to)
  \/ ~ValidateInput(r.subject, SubjectInputMaxLength)
  \/ ~ValidateInput(r.host, InputMaxLength)
  \/ ~r.port.isInt
  \/ r.port.val < 1
  \/ r.port.val > PortMax

(* The argument of createTransport: host and port of the request, secure   *)
(* passed through, certificates never checked.                             *)
SrvTransportOptions(r) ==
  [service |-> "", host |-> r.host, port |-> r.port.val, rejectUnauthorized |-> FALSE]

(* The user-facing message of the catch block.                             *)
TranslateError(error) ==
  IF error.code = "EAUTH" THEN <<"A">>
  ELSE IF error.code = "ECONNECTION" THEN <<"C">>
  ELSE IF error.code = "EENVELOPE" THEN <<"E">>
  ELSE IF error.code = "ETIMEDOUT" THEN <<"T">>
  ELSE IF error.message # <<>> THEN error.message
  ELSE <<"F">>

(* The file after the catch block's logging: a new attempt is logged and   *)
(* finalized as failed; f1 and f2 are the file-system outcomes of the two  *)
(* calls, whose errors the inner try swallows.                             *)
CatchLogFile(file, id, emailData, error, f1, f2) ==
  IF f1 # "ok" THEN file
  ELSE LET logged == LogEmailAttempt(file, id, emailData)
       IN IF f2 = "ok" THEN UpdateLogStatus(logged, id, "failed", None, error.message)
          ELSE logged

(* catch (error) of app.post('/api/send-email')                            *)
SrvCatch(file, error) ==
  /\ \E f1, f2 \in FsOutcomes :
       logFile' = CatchLogFile(file, nextLogId, sreq', error, f1, f2)
  /\ nextLogId' = nextLogId + 1
  /\ sres' = [status |-> 500, error |-> TranslateError(error)]
  /\ spc' = "done"

(* The handler with the checks placed after the transport is created and  *)
(* verified.                                                               *)
SrvRejectAfterVerify ==
  /\ server = "emailServer"
  /\ spc = "idle"
  /\ handled < MaxRequests
  /\ \E r \in SrvRequests :
       /\ SrvInvalid(r)
       /\ sreq' = r
  /\ sres' = [status |-> 400]
  /\ spc' = "done"
  /\ handled' = handled + 1
  /\ UNCHANGED <<logFile, slogId, sinfo, nextLogId>>
  /\ LogIO(<<CreateTransportCall("emailServer", handled + 1, NoCompany,
                                 [service |-> "", host |-> "", port |-> 0,
                                  rejectUnauthorized |-> FALSE]),
             VerifyCall("emailServer", handled + 1)>>)

SrvReject ==
  /\ LogStep
  /\ spc = "idle"
  /\ handled < MaxRequests
  /\ \E r \in SrvRequests :
       /\ SrvInvalid(r)
       /\ sreq' = r
  /\ sres' = [status |-> 400]
  /\ spc' = "done"
  /\ handled' = handled + 1
  /\ UNCHANGED <<logFile, slogId, sinfo, nextLogId>>

(* logEmailAttempt of the try block throws: loadLogs returned null or      *)
(* saveLogs failed.                                                        *)
SrvLogAttemptThrows ==
  /\ LogStep
  /\ spc = "idle"
  /\ handled < MaxRequests
  /\ \E r \in SrvRequests :
       /\ ~SrvInvalid(r)
       /\ sreq' = r
  /\ \E e \in {LoadLogsError, SaveLogsError} : SrvCatch(logFile, e)
  /\ handled' = handled + 1
  /\ UNCHANGED <<slogId, sinfo>>

(* The attempt is logged, then createTransport's argument reads            *)
(* emailConfig.auth.user of a config without auth: TypeError.              *)
SrvAuthMissing ==
  /\ LogStep
  /\ spc = "idle"
  /\ handled < MaxRequests
  /\ \E r \in SrvRequests :
       /\ ~SrvInvalid(r)
       /\ ~r.hasAuth
       /\ sreq' = r
       /\ slogId' = nextLogId
       /\ \E f1, f2 \in FsOutcomes :
            logFile' = CatchLogFile(LogEmailAttempt(logFile, nextLogId, r), nextLogId + 1, r,
                                    TypeErrorAuth, f1, f2)
  /\ nextLogId' = nextLogId + 2
  /\ sres' = [status |-> 500, error |-> TranslateError(TypeErrorAuth)]
  /\ spc' = "done"
  /\ handled' = handled + 1
  /\ UNCHANGED sinfo

(* The attempt is logged as pending and transporter.verify() is awaited.   *)
SrvStartVerify ==
  /\ server = "emailServer"
  /\ spc = "idle"
  /\ handled < MaxRequests
  /\ \E r \in SrvRequests :
       /\ ~SrvInvalid(r)
       /\ r.hasAuth
       /\ sreq' = r
       /\ logFile' = LogEmailAttempt(logFile, nextLogId, r)
       /\ LogIO(<<CreateTransportCall("emailServer", handled + 1, NoCompany, SrvTransportOptions(r)),
                  VerifyCall("emailServer", handled + 1)>>)
  /\ slogId' = nextLogId
  /\ nextLogId' = nextLogId + 1
  /\ spc' = "verifying"
  /\ handled' = handled + 1
  /\ UNCHANGED <<sinfo, sres>>

SrvVerifyFail ==
  /\ LogStep
  /\ spc = "verifying"
  /\ sreq' = sreq
  /\ \E e \in SmtpErrors : SrvCatch(logFile, e)
  /\ UNCHANGED <<slogId, sinfo, handled>>

SrvVerifyOk ==
  /\ server = "emailServer"
  /\ spc = "verifying"
  /\ LogIO(<<SendMailCall("emailServer", handled, sreq.to)>>)
  /\ spc' = "sending"
  /\ UNCHANGED <<logFile, sreq, slogId, sinfo, sres, nextLogId, handled>>

SrvSendFail ==
  /\ LogStep
  /\ spc = "sending"
  /\ sinfo' = "rejected"
  /\ sreq' = sreq
  /\ \E e \in SmtpErrors : SrvCatch(logFile, e)
  /\ UNCHANGED <<slogId, handled>>

(* sendMail resolved; updateLogStatus wrote the entry, or found no logs to *)
(* load and returned; the handler answers 200.                             *)
SrvSendOk ==
  /\ LogStep
  /\ spc = "sending"
  /\ sinfo' = "sent"
  /\ \E f \in {"ok", "loadFails"} :
       logFile' = IF f = "ok"
                  THEN UpdateLogStatus(logFile, slogId, "success", <<"m">>, None)
                  ELSE logFile
  /\ sres' = [status |-> 200, messageId |-> <<"m">>]
  /\ spc' = "done"
  /\ UNCHANGED <<sreq, slogId, nextLogId, handled>>

(* sendMail resolved but saveLogs inside updateLogStatus throws: the       *)
(* handler's catch block runs.                                             *)
SrvSendOkSaveFails ==
  /\ LogStep
  /\ spc = "sending"
  /\ sinfo' = "sent"
  /\ sreq' = sreq
  /\ SrvCatch(logFile, SaveLogsError)
  /\ UNCHANGED <<slogId, handled>>

SrvNextRequest ==
  /\ LogStep
  /\ spc = "done"
  /\ handled < MaxRequests
  /\ spc' = "idle"
  /\ sreq' = NoReq
  /\ slogId' = 0
  /\ sinfo' = "none"
  /\ sres' = NoRes
  /\ UNCHANGED <<logFile, nextLogId, handled>>

(* GET and DELETE /api/logs behind authenticateRequest.                    *)
LogsRequests == [kind : {"logs"}, method : {"GET", "DELETE"}, headers : Credentials]

LogsUnauthorized ==
  /\ LogStep
  /\ spc = "idle"
  /\ handled < MaxRequests
  /\ \E r \in LogsRequests :
       /\ AuthenticateRequest(r.headers) # 0
       /\ sreq' = r
       /\ sres' = [status |-> AuthenticateRequest(r.headers)]
  /\ spc' = "done"
  /\ handled' = handled + 1
  /\ UNCHANGED <<logFile, slogId, sinfo, nextLogId>>

(* GET /api/logs: the content of the file, or 500 when loadLogs fails.     *)
LogsGet ==
  /\ LogStep
  /\ spc = "idle"
  /\ handled < MaxRequests
  /\ \E r \in LogsRequests, f \in {"ok", "loadFails"} :
       /\ r.method = "GET"
       /\ AuthenticateRequest(r.headers) = 0
       /\ sreq' = r
       /\ sres' = IF f = "ok" THEN [status |-> 200, body |-> logFile] ELSE [status |-> 500]
  /\ spc' = "done"
  /\ handled' = handled + 1
  /\ UNCHANGED <<logFile, slogId, sinfo, nextLogId>>

(* DELETE /api/logs: initializeLogsFile() writes only when the file does   *)
(* not exist, and it exists since startup.                                 *)
LogsClear ==
  /\ LogStep
  /\ spc = "idle"
  /\ handled < MaxRequests
  /\ \E r \in LogsRequests :
       /\ r.method = "DELETE"
       /\ AuthenticateRequest(r.headers) = 0
       /\ sreq' = r
  /\ sres' = [status |-> 200]
  /\ spc' = "done"
  /\ handled' = handled + 1
  /\ UNCHANGED <<logFile, slogId, sinfo, nextLogId>>

(* logEmailAttempt and updateLogStatus called directly, in any order.      *)
LogStatuses == {"success", "failed"}

CallLogEmailAttempt ==
  /\ LogApiStep
  /\ handled < MaxRequests + 2
  /\ \E f \in FsOutcomes :
       logFile' = IF f = "ok"
                  THEN LogEmailAttempt(logFile, nextLogId,
                         [to |-> <<"c">>, subject |-> <<"c">>, password |-> "secret"])
                  ELSE logFile
  /\ nextLogId' = nextLogId + 1
  /\ handled' = handled + 1
  /\ UNCHANGED <<spc, sreq, slogId, sinfo, sres>>

CallUpdateLogStatus ==
  /\ LogApiStep
  /\ handled < MaxRequests + 2
  /\ \E id \in 1..nextLogId, st \in LogStatuses, f \in FsOutcomes :
       /\ logFile' = IF f = "ok"
                     THEN UpdateLogStatus(logFile, id, st,
                            IF st = "success" THEN <<"m">> ELSE None,
                            IF st = "failed" THEN <<"c">> ELSE None)
                     ELSE logFile
       /\ sres' = [status |-> 0, call |-> "updateLogStatus", id |-> id,
                   threw |-> (f = "saveFails" /\ \E k \in 1..Len(logFile.logs) : logFile.logs[k].id = id)]
  /\ handled' = handled + 1
  /\ UNCHANGED <<spc, sreq, slogId, sinfo, nextLogId>>

(* =========================== server.js ================================= *)
MaxProcs == 2
MaxOps == 3
MaxNow == 2

Slots == 1..MaxProcs
UserEmails == {"ua", "ub"}
CompanyNames == {"n1", "n2"}

(* emailSettings of the bodies of POST /api/companies: nothing in them is  *)
(* validated before they are stored.                                       *)
DbSettings ==
  { [type |-> "custom", smtpHost |-> "h", smtpPort |-> PortText(587, ""), useSSL |-> TRUE,  useTLS |-> FALSE],
    [type |-> "custom", smtpHost |-> "",  smtpPort |-> PortWord,          useSSL |-> FALSE, useTLS |-> TRUE],
    [type |-> "pop3",   smtpHost |-> "",  smtpPort |-> NoPort,            useSSL |-> FALSE, useTLS |-> TRUE] }

EmptyDB == [users |-> <<>>, companies |-> <<>>, emails |-> <<>>]

(* A db.json left by an earlier run: two users and one company of the      *)
(* first, with ids (timestamps) earlier than any Date.now() of this run.   *)
SeededDB ==
  [ users |-> << [id |-> -2, email |-> "ua", lastLogin |-> -2],
                 [id |-> -1, email |-> "ub", lastLogin |-> -1] >>,
    companies |-> << [_id |-> -3, name |-> "n1", user |-> -2, isActive |-> TRUE,
                      emailSettings |-> [type |-> "gmail", smtpHost |-> "",
                                         smtpPort |-> NoPort,
                                         useSSL |-> FALSE, useTLS |-> TRUE]] >>,
    emails |-> <<>> ]

IdleProc == [pc |-> "idle"]

(* The slots are interchangeable: a request that suspends takes the first  *)
(* free one.                                                               *)
FreeSlot(p) == procs[p].pc = "idle" /\ \A q \in Slots : q < p => procs[q].pc # "idle"

NoDbRes == [rq |-> 0, endpoint |-> "none", user |-> 0, status |-> 0, id |-> 0, body |-> <<>>]

InitDBRest ==
  /\ procs = [p \in Slots |-> IdleProc]
  /\ responses = {}
  /\ now = 1
  /\ ops = 0
  /\ dres = NoDbRes

InitDBVars == db = EmptyDB /\ InitDBRest

(* readDB returns the parsed file; writeDB replaces the whole file by the  *)
(* object it is given.                                                     *)
ReadDB == db

WriteDB(data) == db' = data

(* The ids of the users a bearer token can name: tokens are issued at      *)
(* register and login only, and stay valid for seven days.                 *)
UserIds ==
  {db.users[k].id : k \in 1..Len(db.users)}
    \cup {a.id : a \in {r \in responses : r.kind = "user"}}

(* An Authorization header: absent, a token that does not verify, or a     *)
(* token signed for userId.                                                *)
BadTokens ==
  { [present |-> FALSE, valid |-> FALSE, userId |-> 0],
    [present |-> TRUE,  valid |-> FALSE, userId |-> 0] }

ValidTokens == {[present |-> TRUE, valid |-> TRUE, userId |-> u] : u \in UserIds}

(* authenticateToken: the status it answers, 0 when it calls next().       *)
AuthenticateToken(token) ==
  IF ~token.present THEN 401
  ELSE IF ~token.valid THEN 403
  ELSE 0

DbEndpoints ==
  {"GET /api/companies", "POST /api/companies", "PUT /api/companies/:id",
   "DELETE /api/companies/:id", "GET /api/emails", "POST /api/emails/send"}

DbResponse(rq, endpoint, user, status, id, body) ==
  [rq |-> rq, endpoint |-> endpoint, user |-> user, status |-> status, id |-> id, body |-> body]

Tick ==
  /\ DBStep
  /\ now < MaxNow
  /\ now' = now + 1
  /\ UNCHANGED <<db, procs, responses, ops, dres>>

(* A request to a protected endpoint whose token authenticateToken         *)
(* refuses: the handler is not entered.                                    *)
DbUnauthorized ==
  /\ DBStep
  /\ ops < MaxOps
  /\ \E endpoint \in DbEndpoints, token \in BadTokens :
       dres' = DbResponse(ops + 1, endpoint, 0, AuthenticateToken(token), 0, <<>>)
  /\ ops' = ops + 1
  /\ UNCHANGED <<db, procs, responses, now>>

(* POST /api/auth/register up to `await bcrypt.hash`                       *)
RegisterStart(p) ==
  /\ DBStep
  /\ FreeSlot(p)
  /\ ops < MaxOps
  /\ \E email \in UserEmails :
       LET snap == ReadDB
       IN /\ \A k \in 1..Len(snap.users) : snap.users[k].email # email
          /\ procs' = [procs EXCEPT ![p] = [pc |-> "register", snap |-> snap, email |-> email]]
  /\ ops' = ops + 1
  /\ UNCHANGED <<db, responses, now, dres>>

(* ... and after it: the user is pushed onto the snapshot read before the  *)
(* await and the snapshot is written.                                      *)
RegisterFinish(p) ==
  /\ DBStep
  /\ procs[p].pc = "register"
  /\ LET newUser == [id |-> now, email |-> procs[p].email, lastLogin |-> now]
         data == [procs[p].snap EXCEPT !.users = Append(@, newUser)]
     IN /\ WriteDB(data)
        /\ responses' = responses \cup {[kind |-> "user", id |-> newUser.id, email |-> newUser.email]}
  /\ procs' = [procs EXCEPT ![p] = IdleProc]
  /\ UNCHANGED <<now, ops, dres>>

(* POST /api/auth/login up to `await bcrypt.compare`                       *)
LoginStart(p) ==
  /\ DBStep
  /\ FreeSlot(p)
  /\ ops < MaxOps
  /\ LET snap == ReadDB
     IN \E k \in 1..Len(snap.users) :
          procs' = [procs EXCEPT ![p] = [pc |-> "login", snap |-> snap, index |-> k]]
  /\ ops' = ops + 1
  /\ UNCHANGED <<db, responses, now, dres>>

LoginFinish(p) ==
  /\ DBStep
  /\ procs[p].pc = "login"
  /\ LET k == procs[p].index
         data == [procs[p].snap EXCEPT !.users[k].lastLogin = now]
     IN WriteDB(data)
  /\ procs' = [procs EXCEPT ![p] = IdleProc]
  /\ UNCHANGED <<responses, now, ops, dres>>

(* db.companies.filter(c => c.user === req.user.userId && c.isActive)      *)
ActiveCompaniesOf(data, user) ==
  LET Mine(c) == c.user = user /\ c.isActive
  IN SelectSeq(data.companies, Mine)

(* GET /api/companies                                                      *)
CompanyList ==
  /\ DBStep
  /\ ops < MaxOps
  /\ \E token \in ValidTokens :
       dres' = DbResponse(ops + 1, "GET /api/companies", token.userId, 200, 0,
                          ActiveCompaniesOf(ReadDB, token.userId))
  /\ ops' = ops + 1
  /\ UNCHANGED <<db, procs, responses, now>>

(* The existence check ignoring the owner.                                 *)
ExistingCompanyOfAnyUser(data, user, name) ==
  \E k \in 1..Len(data.companies) :
     data.companies[k].name = name /\ data.companies[k].isActive

(* db.companies.find(c => c.user === userId && c.name === name && c.isActive) *)
ExistingCompany(data, user, name) ==
  \E k \in 1..Len(data.companies) :
     /\ data.companies[k].user = user
     /\ data.companies[k].name = name
     /\ data.companies[k].isActive

(* POST /api/companies with a name the caller already uses: 400, nothing   *)
(* is written.                                                             *)
CompanyCreateConflict ==
  /\ DBStep
  /\ ops < MaxOps
  /\ \E token \in ValidTokens, name \in CompanyNames :
       /\ ExistingCompany(ReadDB, token.userId, name)
       /\ dres' = DbResponse(ops + 1, "POST /api/companies", token.userId, 400, 0,
                             <<[name |-> name]>>)
  /\ ops' = ops + 1
  /\ UNCHANGED <<db, procs, responses, now>>

(* POST /api/companies: no await between readDB and writeDB                *)
CompanyCreate ==
  /\ DBStep
  /\ ops < MaxOps
  /\ \E token \in ValidTokens, name \in CompanyNames, settings \in DbSettings :
       LET data == ReadDB
           user == token.userId
           newCompany == [_id |-> now, name |-> name, user |-> user, isActive |-> TRUE,
                          emailSettings |-> settings]
       IN /\ ~ExistingCompany(data, user, name)
          /\ WriteDB([data EXCEPT !.companies = Append(@, newCompany)])
          /\ responses' = responses \cup {[kind |-> "company", id |-> newCompany._id, user |-> user]}
          /\ dres' = DbResponse(ops + 1, "POST /api/companies", user, 201, newCompany._id,
                                <<newCompany>>)
  /\ ops' = ops + 1
  /\ UNCHANGED <<procs, now>>

(* The indices findIndex / find look at: active companies of the caller    *)
(* with that id; the first of them is the one found.                       *)
FoundActive(data, id, user) ==
  {k \in 1..Len(data.companies) :
     /\ data.companies[k]._id = id
     /\ data.companies[k].user = user
     /\ data.companies[k].isActive}

First(S) == CHOOSE k \in S : \A j \in S : k <= j

(* The ids a request can name: those of the stored companies and one that  *)
(* no company has.                                                         *)
RequestIds == {db.companies[k]._id : k \in 1..Len(db.companies)} \cup {0}

(* PUT and DELETE /api/companies/:id when no active company of the caller  *)
(* has the id: 404.                                                        *)
CompanyNotFound ==
  /\ DBStep
  /\ ops < MaxOps
  /\ \E token \in ValidTokens, id \in RequestIds,
        endpoint \in {"PUT /api/companies/:id", "DELETE /api/companies/:id"} :
       /\ FoundActive(ReadDB, id, token.userId) = {}
       /\ dres' = DbResponse(ops + 1, endpoint, token.userId, 404, id, <<>>)
  /\ ops' = ops + 1
  /\ UNCHANGED <<db, procs, responses, now>>

(* name: typeof name === 'string' && name.trim() ? name : current.name;    *)
(* "" stands for a body without a usable name.                             *)
UpdatedName(name, current) == IF name # "" THEN name ELSE current

(* PUT /api/companies/:id with a body that carries at most a name.         *)
CompanyUpdate ==
  /\ DBStep
  /\ ops < MaxOps
  /\ \E token \in ValidTokens, id \in RequestIds, name \in CompanyNames \cup {""} :
       LET data == ReadDB
           found == FoundActive(data, id, token.userId)
       IN /\ found # {}
          /\ LET companyIndex == First(found)
                 updatedCompany == [data.companies[companyIndex] EXCEPT
                                      !.name = UpdatedName(name, @)]
             IN /\ WriteDB([data EXCEPT !.companies[companyIndex] = updatedCompany])
                /\ dres' = DbResponse(ops + 1, "PUT /api/companies/:id", token.userId, 200, id,
                                      <<updatedCompany>>)
  /\ ops' = ops + 1
  /\ UNCHANGED <<procs, responses, now>>

(* DELETE /api/companies/:id: the first active company of the caller with  *)
(* that id is soft-deleted.                                                *)
CompanyDelete ==
  /\ DBStep
  /\ ops < MaxOps
  /\ \E token \in ValidTokens, id \in RequestIds :
       LET data == ReadDB
           found == FoundActive(data, id, token.userId)
       IN /\ found # {}
          /\ WriteDB([data EXCEPT !.companies[First(found)].isActive = FALSE])
          /\ responses' = responses \cup {[kind |-> "deleted", id |-> id, user |-> token.userId]}
          /\ dres' = DbResponse(ops + 1, "DELETE /api/companies/:id", token.userId, 200, id, <<>>)
  /\ ops' = ops + 1
  /\ UNCHANGED <<procs, now>>

(* filteredEmails.sort((a, b) => new Date(b.sentAt) - new Date(a.sentAt))  *)
RECURSIVE SortNewestFirst(_)
SortNewestFirst(s) ==
  IF s = <<>> THEN <<>>
  ELSE LET rest == SortNewestFirst(Tail(s))
           Before(e) == e.sentAt[1] > Head(s).sentAt[1]
           NotBefore(e) == ~Before(e)
       IN SelectSeq(rest, Before) \o <<Head(s)>> \o SelectSeq(rest, NotBefore)

(* GET /api/emails without a companyId filter                              *)
EmailList ==
  /\ DBStep
  /\ ops < MaxOps
  /\ \E token \in ValidTokens :
       LET Mine(e) == e.user = token.userId
       IN dres' = DbResponse(ops + 1, "GET /api/emails", token.userId, 200, 0,
                             SortNewestFirst(SelectSeq(ReadDB.emails, Mine)))
  /\ ops' = ops + 1
  /\ UNCHANGED <<db, procs, responses, now>>

SupportedTypes == {"gmail", "outlook", "yahoo", "custom"}

(* The argument of nodemailer.createTransport in the branch on             *)
(* emailSettings.type: a custom transport takes host and port as stored,   *)
(* secure is decided by the port alone and no tls option is given.         *)
ServerTransportOptions(emailSettings) ==
  IF emailSettings.type = "custom"
  THEN [service |-> "", host |-> emailSettings.smtpHost,
        port |-> ParseInt(emailSettings.smtpPort),
        secure |-> (ParseInt(emailSettings.smtpPort) = Num(465)),
        rejectUnauthorized |-> TRUE]
  ELSE [service |-> emailSettings.type, host |-> "", port |-> NaN,
        secure |-> FALSE, rejectUnauthorized |-> TRUE]

(* db.companies.find(c => c._id === companyId && c.user === userId)        *)
FoundForSend(data, id, user) ==
  {k \in 1..Len(data.companies) :
     data.companies[k]._id = id /\ data.companies[k].user = user}

(* POST /api/emails/send: no company of the caller has the id.             *)
DbSendNotFound ==
  /\ DBStep
  /\ ops < MaxOps
  /\ \E token \in ValidTokens, companyId \in RequestIds :
       /\ FoundForSend(ReadDB, companyId, token.userId) = {}
       /\ dres' = DbResponse(ops + 1, "POST /api/emails/send", token.userId, 404, companyId, <<>>)
  /\ ops' = ops + 1
  /\ UNCHANGED <<db, procs, responses, now>>

(* POST /api/emails/send: the company's type is none of the four.          *)
DbSendUnsupported ==
  /\ DBStep
  /\ ops < MaxOps
  /\ \E token \in ValidTokens, companyId \in RequestIds :
       LET found == FoundForSend(ReadDB, companyId, token.userId)
       IN /\ found # {}
          /\ ReadDB.companies[First(found)].emailSettings.type \notin SupportedTypes
          /\ dres' = DbResponse(ops + 1, "POST /api/emails/send", token.userId, 400, companyId, <<>>)
  /\ ops' = ops + 1
  /\ UNCHANGED <<db, procs, responses, now>>

(* POST /api/emails/send up to `await transporter.sendMail`: the company   *)
(* is looked up by id and owner only, the transport is created and the     *)
(* send to the recipient of the body is started.                           *)
DbSendStart(p) ==
  /\ server = "server"
  /\ FreeSlot(p)
  /\ ops < MaxOps
  /\ \E token \in ValidTokens, companyId \in RequestIds :
       LET snap == ReadDB
           found == FoundForSend(snap, companyId, token.userId)
       IN /\ found # {}
          /\ LET company == snap.companies[First(found)]
             IN /\ company.emailSettings.type \in SupportedTypes
                /\ procs' = [procs EXCEPT ![p] = [pc |-> "send", snap |-> snap, rq |-> ops + 1,
                                                  user |-> token.userId,
                                                  companyId |-> companyId]]
                /\ DBIO(<< CreateTransportCall("server", ops + 1, company,
                                               ServerTransportOptions(company.emailSettings)),
                           SendMailCall("server", ops + 1, "e1") >>)
  /\ ops' = ops + 1
  /\ UNCHANGED <<db, responses, now, dres>>

(* sendMail resolved: the record is pushed onto the snapshot and written.  *)
DbSendOk(p) ==
  /\ DBStep
  /\ procs[p].pc = "send"
  /\ LET emailRecord == [ _id |-> now,
                          user |-> procs[p].user,
                          company |-> procs[p].companyId,
                          status |-> "sent",
                          sentAt |-> Some(now),
                          messageId |-> Some("m"),
                          errorMessage |-> None ]
         data == [procs[p].snap EXCEPT !.emails = Append(@, emailRecord)]
     IN /\ WriteDB(data)
        /\ responses' = responses \cup {[kind |-> "email", id |-> emailRecord._id, user |-> emailRecord.user]}
        /\ dres' = DbResponse(procs[p].rq, "POST /api/emails/send", procs[p].user, 200,
                              procs[p].companyId, <<emailRecord>>)
  /\ procs' = [procs EXCEPT ![p] = IdleProc]
  /\ UNCHANGED <<now, ops>>

(* sendMail rejected: the catch answers 500 and writes nothing.            *)
DbSendFail(p) ==
  /\ DBStep
  /\ procs[p].pc = "send"
  /\ dres' = DbResponse(procs[p].rq, "POST /api/emails/send", procs[p].user, 500,
                        procs[p].companyId, <<>>)
  /\ procs' = [procs EXCEPT ![p] = IdleProc]
  /\ UNCHANGED <<db, responses, now, ops>>

(* ============ companies router (appended to emailServer.js) ============ *)
MaxCoOps == 2

Users == {"u1", "u2"}

RECURSIVE TrimLeft(_)
TrimLeft(s) == IF s # <<>> /\ Head(s) = " " THEN TrimLeft(Tail(s)) ELSE s

RECURSIVE TrimRight(_)
TrimRight(s) ==
  IF s # <<>> /\ s[Len(s)] = " " THEN TrimRight(SubSeq(s, 1, Len(s) - 1)) ELSE s

(* String.prototype.trim                                                   *)
Trim(s) == TrimRight(TrimLeft(s))

(* req.body.name; <<>> stands for a body without a name.                   *)
NameInputs == {<<>>, <<"a">>, <<"b", " ">>}

(* req.body.emailSettings (with senderInfo); given = FALSE stands for a    *)
(* body without them.                                                      *)
CoSettings ==
  { [given |-> FALSE, type |-> "", smtpHost |-> "", smtpPort |-> NoPort,
     useSSL |-> TRUE, useTLS |-> TRUE],
    [given |-> TRUE, type |-> "custom", smtpHost |-> "h", smtpPort |-> PortText(25, ".5"),
     useSSL |-> TRUE, useTLS |-> TRUE],
    [given |-> TRUE, type |-> "custom", smtpHost |-> "", smtpPort |-> PortWord,
     useSSL |-> TRUE, useTLS |-> TRUE] }

CompanyTypes == {"gmail", "outlook", "yahoo", "custom"}

NameMaxLength == 100

(* The validators of companySchema that save() runs: name required and at  *)
(* most 100 characters, type in the enum, and for a custom company a host  *)
(* and a port that casts to a number between 1 and 65535.                  *)
CompanySchemaValid(doc) ==
  /\ doc.name # <<>>
  /\ Len(doc.name) <= NameMaxLength
  /\ doc.type \in CompanyTypes
  /\ doc.type = "custom" =>
       /\ doc.smtpHost # ""
       /\ ~doc.smtpPort.nan
       /\ doc.smtpPort.val >= 1
       /\ IF doc.smtpPort.frac THEN doc.smtpPort.val < 65535 ELSE doc.smtpPort.val <= 65535

(* new Company({user, name: name.trim(), emailSettings, ...}) with a fresh *)
(* ObjectId; isActive takes the schema default.                            *)
NewCompany(user, name, settings) ==
  [ id |-> "k" \o ToString(Cardinality(companies)),
    user |-> user, isActive |-> TRUE, name |-> Trim(name), type |-> settings.type,
    smtpHost |-> settings.smtpHost, smtpPort |-> ToNumber(settings.smtpPort),
    useSSL |-> settings.useSSL, useTLS |-> settings.useTLS ]

IdleCo == [pc |-> "idle"]

NoCoRes == [rq |-> 0, endpoint |-> "none", user |-> "", status |-> 0, error |-> "", body |-> {}]

CoResponse(rq, endpoint, user, status, error, body) ==
  [rq |-> rq, endpoint |-> endpoint, user |-> user, status |-> status, error |-> error,
   body |-> body]

InitCoVars ==
  /\ cprocs = [p \in Slots |-> IdleCo]
  /\ cres = NoCoRes
  /\ cops = 0

FreeCoSlot(p) == cprocs[p].pc = "idle" /\ \A q \in Slots : q < p => cprocs[q].pc # "idle"

(* The ids a request can name: those of the stored companies and one that  *)
(* no company has.                                                         *)
CoRequestIds == {c.id : c \in companies} \cup {"c9"}

(* GET /: Company.find({user, isActive: true})                             *)
CoList ==
  /\ CoStep
  /\ cops < MaxCoOps
  /\ \E user \in Users :
       cres' = CoResponse(cops + 1, "GET /", user, 200, "",
                          {c \in companies : c.user = user /\ c.isActive})
  /\ cops' = cops + 1
  /\ UNCHANGED <<companies, cprocs>>

(* GET /:id: Company.findOne({_id, user, isActive: true})                  *)
CoGet ==
  /\ CoStep
  /\ cops < MaxCoOps
  /\ \E user \in Users, id \in CoRequestIds :
       LET found == {c \in companies : c.id = id /\ c.user = user /\ c.isActive}
       IN cres' = CoResponse(cops + 1, "GET /:id", user,
                             IF found = {} THEN 404 ELSE 200,
                             IF found = {} THEN "Company not found" ELSE "", found)
  /\ cops' = cops + 1
  /\ UNCHANGED <<companies, cprocs>>

(* POST / without name, emailSettings or senderInfo: 400 before any query. *)
CoCreateReject ==
  /\ CoStep
  /\ cops < MaxCoOps
  /\ \E user \in Users, name \in NameInputs, settings \in CoSettings :
       /\ name = <<>> \/ ~settings.given
       /\ cres' = CoResponse(cops + 1, "POST /", user, 400,
                             "Name, email settings, and sender info are required", {})
  /\ cops' = cops + 1
  /\ UNCHANGED <<companies, cprocs>>


(* Company.findOne({user, name, isActive: true})                           *)
CoExisting(user, name) ==
  \E c \in companies : c.user = user /\ c.name = name /\ c.isActive

(* POST / up to the answer of the existence query.                         *)
CoCreateCheck(p) ==
  /\ CoStep
  /\ FreeCoSlot(p)
  /\ cops < MaxCoOps
  /\ \E user \in Users, name \in NameInputs, settings \in CoSettings :
       /\ name # <<>>
       /\ settings.given
       /\ cprocs' = [cprocs EXCEPT ![p] =
                       [pc |-> "create", rq |-> cops + 1, user |-> user, name |-> name,
                        settings |-> settings, existing |-> CoExisting(user, Trim(name))]]
  /\ cops' = cops + 1
  /\ UNCHANGED <<companies, cres>>

(* ... the query found a company: 400.                                     *)
CoCreateConflict(p) ==
  /\ CoStep
  /\ cprocs[p].pc = "create"
  /\ cprocs[p].existing
  /\ cres' = CoResponse(cprocs[p].rq, "POST /", cprocs[p].user, 400,
                        "A company with this name already exists", {})
  /\ cprocs' = [cprocs EXCEPT ![p] = IdleCo]
  /\ UNCHANGED <<companies, cops>>

(* ... it found none and save() rejects with a ValidationError: 400.       *)
CoCreateInvalid(p) ==
  /\ CoStep
  /\ cprocs[p].pc = "create"
  /\ ~cprocs[p].existing
  /\ ~CompanySchemaValid(NewCompany(cprocs[p].user, cprocs[p].name, cprocs[p].settings))
  /\ cres' = CoResponse(cprocs[p].rq, "POST /", cprocs[p].user, 400, "ValidationError", {})
  /\ cprocs' = [cprocs EXCEPT ![p] = IdleCo]
  /\ UNCHANGED <<companies, cops>>

(* ... it found none and save() inserts the document: 201.                 *)
CoCreateSave(p) ==
  /\ CoStep
  /\ cprocs[p].pc = "create"
  /\ ~cprocs[p].existing
  /\ LET company == NewCompany(cprocs[p].user, cprocs[p].name, cprocs[p].settings)
     IN /\ CompanySchemaValid(company)
        /\ companies' = companies \cup {company}
        /\ cres' = CoResponse(cprocs[p].rq, "POST /", cprocs[p].user, 201, "", {company})
  /\ cprocs' = [cprocs EXCEPT ![p] = IdleCo]
  /\ UNCHANGED cops

(* req.body.isActive of PUT /:id: absent or a boolean.                     *)
ActiveInputs == {None, Some(TRUE)}

(* PUT /:id and DELETE /:id: Company.findOne({_id, user}) finds nothing.   *)
CoNotFound ==
  /\ CoStep
  /\ cops < MaxCoOps
  /\ \E user \in Users, id \in CoRequestIds, endpoint \in {"PUT /:id", "DELETE /:id"} :
       /\ ~\E c \in companies : c.id = id /\ c.user = user
       /\ cres' = CoResponse(cops + 1, endpoint, user, 404, "Company not found", {})
  /\ cops' = cops + 1
  /\ UNCHANGED <<companies, cprocs>>

(* name && name.trim() !== company.name                                    *)
NameChanging(name, company) == name # <<>> /\ Trim(name) # company.name

(* PUT /:id up to the answer of Company.findOne({_id, user}): the document *)
(* is loaded, whether active or not.                                       *)
CoUpdateLoad(p) ==
  /\ CoStep
  /\ FreeCoSlot(p)
  /\ cops < MaxCoOps
  /\ \E user \in Users, name \in NameInputs, isActive \in ActiveInputs :
       \E company \in {c \in companies : c.user = user} :
          cprocs' = [cprocs EXCEPT ![p] =
                       [pc |-> IF NameChanging(name, company) THEN "updateCheck" ELSE "updateSave",
                        rq |-> cops + 1, user |-> user, company |-> company,
                        name |-> name, isActive |-> isActive]]
  /\ cops' = cops + 1
  /\ UNCHANGED <<companies, cres>>

(* Company.findOne({user, name, isActive: true, _id: {$ne: id}})           *)
CoNameTaken(user, name, id) ==
  \E c \in companies : c.user = user /\ c.name = name /\ c.isActive /\ c.id # id

(* ... the name changes and the conflict query answers: 400 if it found a  *)
(* company, otherwise on to save().                                        *)
CoUpdateCheck(p) ==
  /\ CoStep
  /\ cprocs[p].pc = "updateCheck"
  /\ IF CoNameTaken(cprocs[p].user, Trim(cprocs[p].name), cprocs[p].company.id)
     THEN /\ cres' = CoResponse(cprocs[p].rq, "PUT /:id", cprocs[p].user, 400,
                                "A company with this name already exists", {})
          /\ cprocs' = [cprocs EXCEPT ![p] = IdleCo]
     ELSE /\ cprocs' = [cprocs EXCEPT ![p].pc = "updateSave"]
          /\ UNCHANGED cres
  /\ UNCHANGED <<companies, cops>>

(* The stored document after save() of a loaded document: the paths that   *)
(* were assigned a new value are written, the others are left as stored.   *)
SavedCompany(stored, loaded, name, isActive) ==
  [stored EXCEPT
     !.name = IF name # <<>> /\ Trim(name) # loaded.name THEN Trim(name) ELSE @,
     !.isActive = IF isActive # None /\ isActive[1] # loaded.isActive THEN isActive[1] ELSE @]

(* ... the fields of the body are assigned and save() is awaited: 200.     *)
CoUpdateSave(p) ==
  /\ CoStep
  /\ cprocs[p].pc = "updateSave"
  /\ LET stored == CHOOSE c \in companies : c.id = cprocs[p].company.id
         saved == SavedCompany(stored, cprocs[p].company, cprocs[p].name, cprocs[p].isActive)
     IN /\ companies' = (companies \ {stored}) \cup {saved}
        /\ cres' = CoResponse(cprocs[p].rq, "PUT /:id", cprocs[p].user, 200, "", {saved})
  /\ cprocs' = [cprocs EXCEPT ![p] = IdleCo]
  /\ UNCHANGED cops

(* DELETE /:id up to the answer of Company.findOne({_id, user})            *)
CoDeleteLoad(p) ==
  /\ CoStep
  /\ FreeCoSlot(p)
  /\ cops < MaxCoOps
  /\ \E user \in Users :
       \E company \in {c \in companies : c.user = user} :
          cprocs' = [cprocs EXCEPT ![p] =
                       [pc |-> "delete", rq |-> cops + 1, user |-> user, company |-> company]]
  /\ cops' = cops + 1
  /\ UNCHANGED <<companies, cres>>

(* ... company.isActive = false and save(): 200.                           *)
CoDeleteSave(p) ==
  /\ CoStep
  /\ cprocs[p].pc = "delete"
  /\ LET stored == CHOOSE c \in companies : c.id = cprocs[p].company.id
         saved == SavedCompany(stored, cprocs[p].company, <<>>, Some(FALSE))
     IN /\ companies' = (companies \ {stored}) \cup {saved}
        /\ cres' = CoResponse(cprocs[p].rq, "DELETE /:id", cprocs[p].user, 200, "", {})
  /\ cprocs' = [cprocs EXCEPT ![p] = IdleCo]
  /\ UNCHANGED cops

NextCo ==
  \/ CoList
  \/ CoGet
  \/ CoCreateReject
  \/ CoNotFound
  \/ \E p \in Slots :
       \/ CoCreateCheck(p)
       \/ CoCreateConflict(p)
       \/ CoCreateInvalid(p)
       \/ CoCreateSave(p)
       \/ CoUpdateLoad(p)
       \/ CoUpdateCheck(p)
       \/ CoUpdateSave(p)
       \/ CoDeleteLoad(p)
       \/ CoDeleteSave(p)

(* ===================== rate limiters (express-rate-limit) ============== *)
(* Time is counted in minutes.  A limiter keeps, per client address, the   *)
(* number of hits in the current window and the time the window ends.      *)
MaxLimRequests == 7
MaxLimTime == 1

EmailLimiterMax == 5
RoutesEmailLimiterMax == 10
GeneralLimiterMax == 100
EmailWindowMinutes == 1
GeneralWindowMinutes == 15

Clients == {"ip1", "ip2"}

(* The rateLimit instances: limiter and emailLimiter of emailServer.js,    *)
(* emailLimiter of routes/emails.js and the limiter of server.js.          *)
Limiters == {"emailServer.limiter", "emailServer.emailLimiter", "routes.emailLimiter", "server.limiter"}

LimiterMax(l) ==
  CASE l = "emailServer.limiter" -> GeneralLimiterMax
    [] l = "emailServer.emailLimiter" -> EmailLimiterMax
    [] l = "routes.emailLimiter" -> RoutesEmailLimiterMax
    [] l = "server.limiter" -> GeneralLimiterMax

LimiterWindow(l) ==
  CASE l = "emailServer.limiter" -> GeneralWindowMinutes
    [] l = "emailServer.emailLimiter" -> EmailWindowMinutes
    [] l = "routes.emailLimiter" -> EmailWindowMinutes
    [] l = "server.limiter" -> GeneralWindowMinutes

SendEndpoints ==
  {"emailServer /api/send-email", "routes /send", "routes /send-bulk", "server /api/emails/send"}

(* The limiters a request to the endpoint passes, in order: app.use first, *)
(* then the middleware of the route.                                       *)
LimiterChain(endpoint) ==
  CASE endpoint = "emailServer /api/send-email" -> <<"emailServer.limiter", "emailServer.emailLimiter">>
    [] endpoint = "routes /send" -> <<"routes.emailLimiter">>
    [] endpoint = "routes /send-bulk" -> <<"routes.emailLimiter">>
    [] endpoint = "server /api/emails/send" -> <<"server.limiter">>

NoHits == [count |-> 0, resetAt |-> 0]

(* One hit of a client on a limiter: a window that has ended starts anew.  *)
Hit(h, l, time) ==
  IF h.count = 0 \/ time >= h.resetAt
  THEN [count |-> 1, resetAt |-> time + LimiterWindow(l)]
  ELSE [count |-> h.count + 1, resetAt |-> h.resetAt]

(* The stores after the request went through the limiters of the chain,    *)
(* and whether it passed them all: a limiter whose count exceeds max       *)
(* answers 429 and the later ones are not reached.                         *)
RECURSIVE RunChain(_, _, _, _)
RunChain(hits, chain, client, time) ==
  IF chain = <<>> THEN [hits |-> hits, passed |-> TRUE]
  ELSE LET l == Head(chain)
           h == Hit(hits[l][client], l, time)
           after == [hits EXCEPT ![l][client] = h]
       IN IF h.count > LimiterMax(l) THEN [hits |-> after, passed |-> FALSE]
          ELSE RunChain(after, Tail(chain), client, time)

NoLimRes == [endpoint |-> "none", client |-> "", status |-> 0]

InitLimVars ==
  /\ lhits = [l \in Limiters |-> [c \in Clients |-> NoHits]]
  /\ ltime = 0
  /\ served = [e \in SendEndpoints |-> [c \in Clients |-> 0]]
  /\ lres = NoLimRes
  /\ lcount = 0

LimStep ==
  /\ server = "limiters"
  /\ UNCHANGED <<server, routeVars, logVars, dbVars, coVars, histVars, updVars, viewVars, net>>

(* A minute passes.                                                        *)
LimTick ==
  /\ LimStep
  /\ ltime < MaxLimTime
  /\ ltime' = ltime + 1
  /\ served' = [e \in SendEndpoints |-> [c \in Clients |-> 0]]
  /\ UNCHANGED <<lhits, lres, lcount>>

(* A send request that every limiter of its chain lets through reaches the *)
(* handler.                                                                *)
LimPassed ==
  /\ LimStep
  /\ lcount < MaxLimRequests
  /\ \E e \in SendEndpoints, c \in Clients :
       LET run == RunChain(lhits, LimiterChain(e), c, ltime)
       IN /\ run.passed
          /\ lhits' = run.hits
          /\ served' = [served EXCEPT ![e][c] = @ + 1]
          /\ lres' = [endpoint |-> e, client |-> c, status |-> 200]
  /\ lcount' = lcount + 1
  /\ UNCHANGED ltime

(* A limiter of the chain answers 429: the handler is not entered.         *)
LimRejected ==
  /\ LimStep
  /\ lcount < MaxLimRequests
  /\ \E e \in SendEndpoints, c \in Clients :
       LET run == RunChain(lhits, LimiterChain(e), c, ltime)
       IN /\ ~run.passed
          /\ lhits' = run.hits
          /\ lres' = [endpoint |-> e, client |-> c, status |-> 429]
  /\ lcount' = lcount + 1
  /\ UNCHANGED <<ltime, served>>

NextLimiters == LimTick \/ LimPassed \/ LimRejected

(* ===================== email history and statistics ==================== *)
(* The Email collection of routes/emails.js and db.emails of server.js as  *)
(* the queries read them. Records are kept in insertion order and          *)
(* createdAt grows with it; server.js stamps sentAt and createdAt in the   *)
(* same statement.                                                         *)
MaxHistory == 3
DefaultPage == 1
DefaultLimit == 20

HistoryCompanies == {"c1", "c2"}

HistoryRecord(k, user, company, status) ==
  [user |-> user, company |-> company, status |-> status, createdAt |-> k, sentAt |-> Some(k)]

HistoryStores ==
  UNION {{[k \in 1..n |-> HistoryRecord(k, u[k], c[k], s[k])] :
            u \in [1..n -> Users], c \in [1..n -> HistoryCompanies],
            s \in [1..n -> {"sent", "failed"}]} : n \in 0..MaxHistory}

(* req.query of GET /api/emails: page and limit arrive as text.            *)
HistoryQueries ==
  [ page : {NoPort} \cup {PortText(n, "") : n \in 1..MaxHistory},
    limit : {NoPort} \cup {PortText(n, "") : n \in 1..(MaxHistory - 1)},
    companyId : {""} \cup HistoryCompanies,
    status : {"", "sent"} ]

NoQuery == [page |-> NoPort, limit |-> NoPort, companyId |-> "", status |-> ""]

NoHistoryRes == [status |-> 0, endpoint |-> "none"]

(* const { page = 1, limit = 20 } = req.query, used as a number            *)
QueryNumber(v, default) == IF v.present THEN ToNumber(v) ELSE Num(default)

(* parseInt(limit), parseInt(page)                                         *)
QueryInt(v, default) == IF v.present THEN ParseInt(v) ELSE Num(default)

(* The place of a record in a list kept newest first.                      *)
RECURSIVE InsertByCreatedAt(_, _)
InsertByCreatedAt(sorted, e) ==
  IF sorted = <<>> THEN <<e>>
  ELSE IF Head(sorted).createdAt >= e.createdAt
       THEN <<Head(sorted)>> \o InsertByCreatedAt(Tail(sorted), e)
       ELSE <<e>> \o sorted

(* .sort({ createdAt: -1 })                                                *)
RECURSIVE SortByCreatedAt(_)
SortByCreatedAt(s) ==
  IF s = <<>> THEN <<>>
  ELSE InsertByCreatedAt(SortByCreatedAt(SubSeq(s, 1, Len(s) - 1)), s[Len(s)])

(* .skip(n)                                                                *)
Skip(s, n) == IF n >= Len(s) THEN <<>> ELSE SubSeq(s, n + 1, Len(s))

(* .limit(n): a limit of 0 is no limit.                                    *)
Limit(s, n) == IF n = 0 \/ n >= Len(s) THEN s ELSE SubSeq(s, 1, n)

(* Math.ceil(total / limit)                                                *)
CeilDiv(a, b) == (a + b - 1) \div b

(* filter = { user: req.user.userId }, narrowed by companyId and status    *)
(* when the query has them.                                                *)
HistoryFilter(q) ==
  LET Matches(e) == /\ e.user = Caller
                    /\ (q.companyId # "" => e.company = q.companyId)
                    /\ (q.status # "" => e.status = q.status)
  IN SelectSeq(hemails, Matches)

(* router.get('/') of routes/emails.js                                     *)
RoutesHistory(q) ==
  LET page == QueryNumber(q.page, DefaultPage)
      limit == QueryNumber(q.limit, DefaultLimit)
      skip == (page.val - 1) * limit.val
      found == Limit(Skip(SortByCreatedAt(HistoryFilter(q)), skip),
                     QueryInt(q.limit, DefaultLimit).val)
      total == Len(HistoryFilter(q))
  IN [ status |-> 200,
       endpoint |-> "routes GET /",
       emails |-> found,
       pagination |-> [ current |-> QueryInt(q.page, DefaultPage).val,
                        total |-> CeilDiv(total, limit.val),
                        hasNext |-> skip + Len(found) < total,
                        hasPrev |-> page.val > 1 ] ]

(* app.get('/api/emails') of server.js: page, limit and status are not     *)
(* read; companyId 'all' stands for no company.                            *)
DbHistory(q) ==
  LET ofUser == SelectSeq(hemails, LAMBDA e : e.user = Caller)
      filteredEmails ==
        IF q.companyId # "" /\ q.companyId # "all"
        THEN SelectSeq(ofUser, LAMBDA e : e.company = q.companyId)
        ELSE ofUser
      sorted == SortNewestFirst(filteredEmails)
  IN [ status |-> 200,
       endpoint |-> "server GET /api/emails",
       emails |-> sorted,
       total |-> Len(sorted) ]

InitHistVars ==
  /\ hemails = <<>>
  /\ hquery = NoQuery
  /\ hres = NoHistoryRes

HistStep ==
  /\ server = "history"
  /\ UNCHANGED <<server, routeVars, logVars, dbVars, coVars, limVars, updVars, viewVars, net>>

HistoryGet ==
  /\ HistStep
  /\ hres = NoHistoryRes
  /\ hres' = RoutesHistory(hquery)
  /\ UNCHANGED <<hemails, hquery>>

DbHistoryGet ==
  /\ HistStep
  /\ hres = NoHistoryRes
  /\ hres' = DbHistory(hquery)
  /\ UNCHANGED <<hemails, hquery>>

NextHistory == HistoryGet \/ DbHistoryGet

(* ----------------------- GET /stats/overview --------------------------- *)
(* Time in days: Today is new Date(), a record of age a was created at     *)
(* Today - a.                                                              *)
MaxStats == 2
DefaultDays == 30
Today == 100

StatAges == {0, 30, 40, 46}

StatRecord(user, company, age) == [user |-> user, company |-> company, createdAt |-> Today - age]

StatStores ==
  UNION {[1..n -> {StatRecord(u, c, a) : u \in Users, c \in HistoryCompanies, a \in StatAges}] :
           n \in 0..MaxStats}

(* req.query of GET /stats/overview                                        *)
StatQueries ==
  [ companyId : {""} \cup HistoryCompanies,
    days : {NoPort, PortText(DefaultDays, ""), PortText(45, "")} ]

(* Start of the window of the statistics, which counts back from today.    *)
StartDateIgnoringDays(q) == Today - DefaultDays

(* startDate.setDate(startDate.getDate() - parseInt(days))                 *)
StartDate(q) == Today - QueryInt(q.days, DefaultDays).val

(* router.get('/stats/overview'): totalEmails and totalCompanies. The      *)
(* status breakdown is a separate aggregation and is left out.             *)
StatsOverview(q) ==
  LET InFilter(e) == /\ e.user = Caller
                     /\ (q.companyId # "" => e.company = q.companyId)
                     /\ e.createdAt >= StartDate(q)
  IN [ status |-> 200,
       endpoint |-> "routes GET /stats/overview",
       totalEmails |-> Len(SelectSeq(hemails, InFilter)),
       totalCompanies |-> Cardinality({c \in companies : c.user = Caller /\ c.isActive}),
       period |-> QueryInt(q.days, DefaultDays).val ]

StatsGet ==
  /\ HistStep
  /\ hres = NoHistoryRes
  /\ hres' = StatsOverview(hquery)
  /\ UNCHANGED <<hemails, hquery>>

NextStats == StatsGet

(* --------------------- PUT company: the update ------------------------- *)
(* The update of one stored company as a function of the document and the  *)
(* request body, for the owner of the company and with no other company of *)
(* the owner in the store. Sub-documents are functions from the names of   *)
(* the sub-fields that are set to their values.                            *)
EmailSettingsKeys == {"email", "password", "type", "smtpHost", "smtpPort", "useSSL", "useTLS"}

SenderInfoKeys == {"name", "signature"}

Restrict(f, K) == [k \in K |-> f[k]]

StoredSettings ==
  [email |-> "old@x", password |-> "pw1", type |-> "custom", smtpHost |-> "h1",
   smtpPort |-> 25, useSSL |-> FALSE, useTLS |-> FALSE]

SuppliedSettings ==
  [email |-> "new@x", password |-> "pw2", type |-> "gmail", smtpHost |-> "h2",
   smtpPort |-> 587, useSSL |-> TRUE, useTLS |-> TRUE]

StoredSender == [name |-> "old sender", signature |-> "old signature"]

SuppliedSender == [name |-> "new sender", signature |-> "new signature"]

StoredCompanies ==
  { [id |-> "c1", user |-> "u1", isActive |-> active, name |-> <<"n">>, description |-> <<"d">>,
     emailSettings |-> StoredSettings, senderInfo |-> StoredSender] : active \in BOOLEAN }

(* req.body of the PUT: name <<>> and None stand for a key the body does   *)
(* not have.                                                               *)
UpdateBodies ==
  [ name : NameInputs,
    emailSettings : {None} \cup {Some(Restrict(SuppliedSettings, K)) : K \in SUBSET EmailSettingsKeys},
    senderInfo : {None} \cup {Some(Restrict(SuppliedSender, K)) : K \in SUBSET SenderInfoKeys},
    description : {None, Some(<<"e", " ">>)},
    isActive : {None, Some(TRUE), Some(FALSE)} ]

NoBody == [name |-> <<>>, emailSettings |-> None, senderInfo |-> None, description |-> None,
           isActive |-> None]

NoUpdateRes == [status |-> 0, endpoint |-> "none"]

(* { ...current.emailSettings, ...(emailSettings || {}) }                  *)
Spread(current, given) ==
  IF given = None THEN current
  ELSE [k \in DOMAIN current \cup DOMAIN given[1] |->
          IF k \in DOMAIN given[1] THEN given[1][k] ELSE current[k]]

(* updatedCompany of app.put('/api/companies/:id') of server.js            *)
DbUpdatedCompany(current, body) ==
  [current EXCEPT
     !.name = IF body.name # <<>> /\ Trim(body.name) # <<>> THEN body.name ELSE @,
     !.emailSettings = Spread(@, body.emailSettings),
     !.senderInfo = Spread(@, body.senderInfo),
     !.description = IF body.description # None THEN body.description[1] ELSE @]

(* company.emailSettings = emailSettings: the nested path takes the object *)
(* of the body; a sub-field the object leaves out is unset, or takes its   *)
(* schema default where it has one and defaults are applied.               *)
SettingsDefaults == [useSSL |-> TRUE, useTLS |-> TRUE]

AssignNested(current, given, defaults) ==
  IF given = None THEN current
  ELSE [k \in DOMAIN given[1] \cup DOMAIN defaults |->
          IF k \in DOMAIN given[1] THEN given[1][k] ELSE defaults[k]]

NoDefaults == [k \in {} |-> TRUE]

(* "Update fields" of router.put('/:id')                                   *)
CoAssignedCompany(company, body, defaults) ==
  [company EXCEPT
     !.name = IF body.name # <<>> THEN Trim(body.name) ELSE @,
     !.emailSettings = AssignNested(@, body.emailSettings, defaults),
     !.senderInfo = AssignNested(@, body.senderInfo, NoDefaults),
     !.description = IF body.description # None THEN Trim(body.description[1]) ELSE @,
     !.isActive = IF body.isActive # None THEN body.isActive[1] ELSE @]

(* The validators of companySchema that save() runs on the sub-documents.  *)
CompanyDocValid(doc) ==
  /\ doc.name # <<>>
  /\ {"email", "password", "type"} \subseteq DOMAIN doc.emailSettings
  /\ doc.emailSettings["type"] \in CompanyTypes
  /\ doc.emailSettings["type"] = "custom" =>
       /\ {"smtpHost", "smtpPort"} \subseteq DOMAIN doc.emailSettings
       /\ doc.emailSettings["smtpPort"] >= 1
       /\ doc.emailSettings["smtpPort"] <= PortMax
  /\ "name" \in DOMAIN doc.senderInfo

InitUpdVars ==
  /\ ucompany = CHOOSE c \in StoredCompanies : c.isActive
  /\ ubody = NoBody
  /\ ures = NoUpdateRes

UpdStep ==
  /\ server = "update"
  /\ UNCHANGED <<server, routeVars, logVars, dbVars, coVars, limVars, histVars, viewVars, net>>

(* app.put('/api/companies/:id') of server.js                              *)
DbCompanyPut ==
  /\ UpdStep
  /\ ures = NoUpdateRes
  /\ IF ucompany.isActive
     THEN /\ ucompany' = DbUpdatedCompany(ucompany, ubody)
          /\ ures' = [status |-> 200, endpoint |-> "server PUT /api/companies/:id",
                      before |-> ucompany, company |-> ucompany']
     ELSE /\ ures' = [status |-> 404, endpoint |-> "server PUT /api/companies/:id"]
          /\ UNCHANGED ucompany
  /\ UNCHANGED ubody

(* router.put('/:id') of the companies router                              *)
CoCompanyPut ==
  /\ UpdStep
  /\ ures = NoUpdateRes
  /\ \E defaults \in {NoDefaults, SettingsDefaults} :
       LET assigned == CoAssignedCompany(ucompany, ubody, defaults)
       IN IF CompanyDocValid(assigned)
          THEN /\ ucompany' = assigned
               /\ ures' = [status |-> 200, endpoint |-> "router PUT /:id",
                           before |-> ucompany, company |-> assigned]
          ELSE /\ ures' = [status |-> 400, endpoint |-> "router PUT /:id"]
               /\ UNCHANGED ucompany
  /\ UNCHANGED ubody

NextUpdate == DbCompanyPut \/ CoCompanyPut

(* ================= src/src/components/EmailLogs.tsx ==================== *)
(* The EmailLogs component with a fixed token: its state (selectedCompany, *)
(* emails, loading), its refs (abortControllerRef, requestIdRef) and the   *)
(* fetches it has in flight. A request id is <<company, n>>, n counting    *)
(* the email requests issued; the list a response carries is named by the  *)
(* request it answers.                                                     *)
MaxViewRequests == 6

FilterOptions == {"all", "c1", "c2", "c3"}

NoRequestId == <<"", 0>>

NoList == [company |-> "", rq |-> 0]

ListOf(requestId) == [company |-> requestId[1], rq |-> requestId[2]]

CompaniesFetch == [kind |-> "companies", id |-> NoRequestId, phase |-> "fetch"]

EmailsFetch(requestId) == [kind |-> "emails", id |-> requestId, phase |-> "fetch"]

InitViewVars ==
  /\ vpc = "unmounted"
  /\ selectedCompany = "all"
  /\ vemails = NoList
  /\ loading = TRUE
  /\ abortController = "null"
  /\ requestIdRef = NoRequestId
  /\ vflight = {}
  /\ vissued = <<>>

ViewStep ==
  /\ server = "EmailLogs"
  /\ UNCHANGED <<server, routeVars, logVars, dbVars, coVars, limVars, histVars, updVars, net>>

(* fetchEmails up to its first await, called when the requests issued are  *)
(* `issued` and the controller is `controller`: the id is stored in        *)
(* requestIdRef and fetch is called with the signal of the controller,     *)
(* which rejects at once when the signal is aborted already.               *)
FetchEmailsId(company, issued) == <<company, Len(issued) + 1>>

FetchEmailsIssued(company, issued, controller) ==
  Append(issued, [id |-> FetchEmailsId(company, issued),
                  outcome |-> IF controller = "aborted" THEN "aborted" ELSE "pending"])

(* The first effect: initializeData starts with fetchCompanies, which      *)
(* creates the AbortController; the second effect only clears              *)
(* isInitialMount.                                                         *)
Mount ==
  /\ ViewStep
  /\ vpc = "unmounted"
  /\ vissued = <<>>
  /\ vpc' = "mounted"
  /\ abortController' = "live"
  /\ vflight' = {CompaniesFetch}
  /\ UNCHANGED <<selectedCompany, vemails, loading, requestIdRef, vissued>>

(* fetchCompanies settles, with the companies or with an error, and        *)
(* initializeData goes on to fetchEmails of the first render, whose        *)
(* selectedCompany is 'all'.                                               *)
CompaniesResponse ==
  /\ ViewStep
  /\ CompaniesFetch \in vflight
  /\ vissued' = FetchEmailsIssued("all", vissued, abortController)
  /\ requestIdRef' = FetchEmailsId("all", vissued)
  /\ vflight' = (vflight \ {CompaniesFetch}) \cup {EmailsFetch(requestIdRef')}
  /\ loading' = TRUE
  /\ UNCHANGED <<vpc, selectedCompany, vemails, abortController>>

(* What settles of an aborted controller: every fetch in flight rejects    *)
(* with AbortError, and initializeData, when its fetchCompanies was among  *)
(* them, goes on to a fetchEmails that is aborted as well.                 *)
AbortedOutcomes(issued) ==
  [k \in DOMAIN issued |->
     IF issued[k].outcome = "pending" THEN [issued[k] EXCEPT !.outcome = "aborted"]
     ELSE issued[k]]

(* setSelectedCompany(value) from the filter: the cleanup of the second    *)
(* effect aborts the controller of fetchCompanies and the effect calls     *)
(* fetchEmails, which has no controller of its own. Every request is       *)
(* rejected with AbortError: catch returns and finally sets loading false. *)
SelectCompany ==
  /\ ViewStep
  /\ vpc = "mounted"
  /\ Len(vissued) + 2 <= MaxViewRequests
  /\ \E value \in FilterOptions \ {selectedCompany} :
       LET settled == AbortedOutcomes(vissued)
           effect == FetchEmailsIssued(value, settled, "aborted")
           afterInit == IF CompaniesFetch \in vflight
                        THEN FetchEmailsIssued("all", effect, "aborted")
                        ELSE effect
       IN /\ selectedCompany' = value
          /\ vissued' = afterInit
          /\ requestIdRef' = afterInit[Len(afterInit)].id
  /\ abortController' = "aborted"
  /\ vflight' = {}
  /\ loading' = FALSE
  /\ UNCHANGED <<vpc, vemails>>

SetOutcome(issued, requestId, outcome) ==
  [k \in DOMAIN issued |->
     IF issued[k].id = requestId THEN [issued[k] EXCEPT !.outcome = outcome] ELSE issued[k]]

(* await fetch(url, ...) of fetchEmails settles: a superseded request      *)
(* returns; a response that is ok goes on to response.json(); any other    *)
(* response and a network error empty the list. finally sets loading       *)
(* false whenever the function is left.                                    *)
EmailsResponse ==
  /\ ViewStep
  /\ \E r \in vflight, answer \in {"ok", "notOk", "error"} :
       /\ r.kind = "emails"
       /\ r.phase = "fetch"
       /\ IF requestIdRef # r.id
          THEN /\ vflight' = vflight \ {r}
               /\ vissued' = SetOutcome(vissued, r.id, "ignored")
               /\ loading' = FALSE
               /\ UNCHANGED vemails
          ELSE IF answer = "ok"
          THEN /\ vflight' = (vflight \ {r}) \cup {[r EXCEPT !.phase = "json"]}
               /\ UNCHANGED <<vissued, loading, vemails>>
          ELSE /\ vflight' = vflight \ {r}
               /\ vissued' = SetOutcome(vissued, r.id, "failed")
               /\ vemails' = NoList
               /\ loading' = FALSE
  /\ UNCHANGED <<vpc, selectedCompany, abortController, requestIdRef>>

(* await response.json() settles and setEmails(data.emails || []) runs:    *)
(* requestIdRef is not read again.                                         *)
EmailsJson ==
  /\ ViewStep
  /\ \E r \in vflight, answer \in {"ok", "error"} :
       /\ r.kind = "emails"
       /\ r.phase = "json"
       /\ vflight' = vflight \ {r}
       /\ vissued' = SetOutcome(vissued, r.id, IF answer = "ok" THEN "applied" ELSE "failed")
       /\ vemails' = IF answer = "ok" THEN ListOf(r.id) ELSE NoList
       /\ loading' = FALSE
  /\ UNCHANGED <<vpc, selectedCompany, abortController, requestIdRef>>

(* The cleanup of the effects on unmount.                                  *)
Unmount ==
  /\ ViewStep
  /\ vpc = "mounted"
  /\ vpc' = "gone"
  /\ abortController' = "aborted"
  /\ vflight' = {}
  /\ vissued' = AbortedOutcomes(vissued)
  /\ UNCHANGED <<selectedCompany, vemails, loading, requestIdRef>>

NextView == Mount \/ CompaniesResponse \/ SelectCompany \/ EmailsResponse \/ EmailsJson \/ Unmount

(* ========================= specifications ============================== *)
NextBulk ==
  \/ BulkReject
  \/ BulkAccept
  \/ BulkCompanyNotFound
  \/ BulkTransportThrows
  \/ BulkEnterLoop
  \/ BulkStartSend
  \/ BulkSendOk
  \/ BulkSendFail
  \/ BulkSaveOk
  \/ BulkSaveFail
  \/ BulkCatchSaveOk
  \/ BulkCatchSaveFail
  \/ BulkDelayDone
  \/ BulkRespond

NextSend ==
  \/ SendReject
  \/ SendAccept
  \/ SendCompanyNotFound
  \/ SendTransportThrows
  \/ SendStartSend
  \/ SendSendOk
  \/ SendSendFail
  \/ SendSaveOk
  \/ SendSaveFail

NextRoutes == NextBulk \/ NextSend

NextLog ==
  \/ SrvReject
  \/ SrvLogAttemptThrows
  \/ SrvAuthMissing
  \/ SrvStartVerify
  \/ SrvVerifyFail
  \/ SrvVerifyOk
  \/ SrvSendFail
  \/ SrvSendOk
  \/ SrvSendOkSaveFails
  \/ SrvNextRequest

NextLogApi == CallLogEmailAttempt \/ CallUpdateLogStatus

NextDB ==
  \/ Tick
  \/ DbUnauthorized
  \/ CompanyList
  \/ CompanyCreateConflict
  \/ CompanyCreate
  \/ CompanyNotFound
  \/ CompanyUpdate
  \/ CompanyDelete
  \/ EmailList
  \/ DbSendNotFound
  \/ DbSendUnsupported
  \/ \E p \in Slots :
       \/ RegisterStart(p)
       \/ RegisterFinish(p)
       \/ LoginStart(p)
       \/ LoginFinish(p)
       \/ DbSendStart(p)
       \/ DbSendOk(p)
       \/ DbSendFail(p)

(* The requests of server.js that write companies and emails.              *)
NextDBLedger ==
  \/ Tick
  \/ CompanyCreate
  \/ CompanyDelete
  \/ \E p \in Slots :
       \/ DbSendStart(p)
       \/ DbSendOk(p)
       \/ DbSendFail(p)

(* POST /api/emails/send of server.js and the company creation that       *)
(* stores the settings it reads.                                           *)
NextDBSend ==
  \/ Tick
  \/ CompanyCreate
  \/ DbSendNotFound
  \/ DbSendUnsupported
  \/ \E p \in Slots :
       \/ DbSendStart(p)
       \/ DbSendOk(p)
       \/ DbSendFail(p)

(* The single-send endpoints of the three servers.                         *)
NextSends == NextSend \/ NextLog \/ NextDBSend

(* The company routes of server.js: none of them awaits.                  *)
NextDBCompanies ==
  \/ Tick
  \/ CompanyList
  \/ CompanyCreateConflict
  \/ CompanyCreate
  \/ CompanyNotFound
  \/ CompanyUpdate
  \/ CompanyDelete

NextCompanies == NextCo \/ NextDBCompanies

NextLogAdmin == LogsUnauthorized \/ LogsGet \/ LogsClear

NextLedgers == NextRoutes \/ NextLog \/ NextDBLedger

InitAuxVars == InitLimVars /\ InitHistVars /\ InitUpdVars /\ InitViewVars

InitVars ==
  InitRouteVars /\ InitLogVars /\ InitDBVars /\ InitCoVars /\ InitAuxVars /\ net = <<>>

InitRoutes == server = "routes" /\ InitVars

InitLog == server = "emailServer" /\ InitVars

InitLogApi == server = "logApi" /\ InitVars

(* server.js starts on the db.json it finds: a new one or one left by an   *)
(* earlier run.                                                            *)
InitDB ==
  /\ server = "server"
  /\ InitRouteVars /\ InitLogVars /\ InitCoVars /\ InitAuxVars /\ net = <<>>
  /\ db \in {EmptyDB, SeededDB}
  /\ InitDBRest

SpecRoutes == InitRoutes /\ [][NextRoutes]_vars

SpecLog == InitLog /\ [][NextLog]_vars

(* emailServer.js with its logs endpoints.                                *)
SpecLogAuth == InitLog /\ [][NextLog \/ NextLogAdmin]_vars

SpecLogApi == InitLogApi /\ [][NextLogApi]_vars

InitCo == server = "companies" /\ InitVars

InitLimiters == server = "limiters" /\ InitVars

SpecLimiters == InitLimiters /\ [][NextLimiters]_vars

InitHistory ==
  /\ server = "history"
  /\ InitRouteVars /\ InitLogVars /\ InitDBVars /\ InitCoVars /\ InitLimVars /\ InitUpdVars /\ InitViewVars /\ net = <<>>
  /\ hemails \in HistoryStores
  /\ hquery \in HistoryQueries
  /\ hres = NoHistoryRes

SpecHistory == InitHistory /\ [][NextHistory]_vars

InitStats ==
  /\ server = "history"
  /\ InitRouteVars /\ InitLogVars /\ InitDBVars /\ InitCoVars /\ InitLimVars /\ InitUpdVars /\ InitViewVars /\ net = <<>>
  /\ hemails \in StatStores
  /\ hquery \in StatQueries
  /\ hres = NoHistoryRes

SpecStats == InitStats /\ [][NextStats]_vars

InitUpdate ==
  /\ server = "update"
  /\ InitRouteVars /\ InitLogVars /\ InitDBVars /\ InitCoVars /\ InitLimVars /\ InitHistVars /\ InitViewVars /\ net = <<>>
  /\ ucompany \in StoredCompanies
  /\ ubody \in UpdateBodies
  /\ ures = NoUpdateRes

SpecUpdate == InitUpdate /\ [][NextUpdate]_vars

InitView == server = "EmailLogs" /\ InitVars

SpecView == InitView /\ [][NextView]_vars

SpecCo == InitCo /\ [][NextCo]_vars

SpecDB == InitDB /\ [][NextDB]_vars

SpecDBLedger == InitDB /\ [][NextDBLedger]_vars

SpecSends ==
  /\ InitRoutes \/ InitLog \/ InitDB
  /\ [][NextSends]_vars

SpecCompanies ==
  /\ InitCo \/ InitDB
  /\ [][NextCompanies]_vars

(* One of the server programs runs at a time: they listen on the same port. *)
SpecLedgers ==
  /\ InitRoutes \/ InitLog \/ InitDB
  /\ [][NextLedgers]_vars

(* ======================= properties: send-bulk ========================= *)
InBulk == req.kind = "bulk" /\ pc \notin {"idle", "lookup"}

(* The send of some recipient of the run was rejected by the Dispatcher.   *)
DispatcherErrorSeen ==
  \/ \E k \in 1..Len(emails) : emails[k].errorMessage = Some("smtp error")
  \/ cur.stage = "catch" /\ cur.rec.errorMessage = Some("smtp error")

(* C1: in a bulk send a Dispatcher error for one recipient does not abort  *)
(* the run: once the handler has finished a run in which a send was        *)
(* rejected, every recipient was attempted, the failure is in the ledger   *)
(* and the final response (200 with the results) was produced.             *)
C1_FailureIsolated ==
  (InBulk /\ pc = "done" /\ Len(outbox) > 0 /\ DispatcherErrorSeen) =>
     /\ res.status = 200
     /\ Len(outbox) = Len(req.recipients)
     /\ \E k \in 1..Len(emails) : emails[k].errorMessage = Some("smtp error")

(* C7: a bulk campaign is strictly sequential in recipient order: at most  *)
(* one send is in flight, the send in flight is the one of the next        *)
(* recipient of the list, and when it was started the ledger already held  *)
(* the final entry (sent or failed) of every earlier recipient.            *)
C7_Sequential ==
  InBulk =>
     /\ Cardinality(inflight) <= 1
     /\ \A k \in inflight :
          /\ k = Len(outbox)
          /\ Len(emails) = k - 1
          /\ Len(results.emails) = k - 1
     /\ \A k \in 1..Len(outbox) : outbox[k].to = req.recipients[k].email
     /\ \A k \in 1..Len(emails) :
          /\ emails[k].to = req.recipients[k].email
          /\ emails[k].status \in {"sent", "failed"}

C7_Witness ==
  InBulk /\ pc = "sending" /\ inflight = {2} /\ Len(emails) = 1

OutcomeIndices(out, st) == {k \in 1..Len(out) : out[k].status = st}

(* C8: a completed bulk send answers with exactly one outcome per          *)
(* recipient, in input order, a sent outcome carrying the message id and a *)
(* failed one the error text; sent and failed are the numbers of outcomes  *)
(* of that status and add up to the number of recipients.                  *)
C8_BulkResult ==
  (InBulk /\ pc = "done" /\ res.status = 200) =>
     LET out == res.results.emails
         n == Len(req.recipients)
     IN /\ Len(out) = n
        /\ \A k \in 1..Len(out) :
             /\ out[k].to = req.recipients[k].email
             /\ \/ /\ out[k].status = "sent"
                   /\ "messageId" \in DOMAIN out[k]
                   /\ out[k].messageId # None
                \/ /\ out[k].status = "failed"
                   /\ "error" \in DOMAIN out[k]
                   /\ out[k].error # None
        /\ res.results.sent = Cardinality(OutcomeIndices(out, "sent"))
        /\ res.results.failed = Cardinality(OutcomeIndices(out, "failed"))
        /\ res.results.sent + res.results.failed = n

C8_Witness ==
  /\ InBulk /\ pc = "done" /\ res.status = 200
  /\ res.results.sent = 1 /\ res.results.failed = 1
  /\ res.results.emails[1].status = "failed"

(* C9: the pause (delay ms, 1000 when the request gives none) is taken     *)
(* between consecutive sends only: the k-th pause follows the recording of *)
(* recipient k's outcome and precedes recipient k+1's send, a completed    *)
(* run of n recipients took exactly n-1 pauses, and no pause follows the   *)
(* last recipient, also when its send failed.                              *)
C9_PausesBetweenSends ==
  InBulk =>
     LET n == Len(req.recipients)
     IN /\ \A k \in 1..Len(pauses) :
             /\ pauses[k].after = k
             /\ k < n
             /\ pauses[k].ms = (IF req.delay = None THEN 1000 ELSE req.delay[1])
        /\ pc = "delay" => (Len(results.emails) = i /\ Len(pauses) = i - 1 /\ Len(outbox) = i)
        /\ pc = "sending" => (Len(pauses) = i - 1 /\ Len(outbox) = i)
        /\ (pc = "done" /\ res.status = 200) => Len(pauses) = n - 1

C9_Witness ==
  /\ InBulk /\ pc = "done" /\ res.status = 200
  /\ Len(req.recipients) = 2
  /\ Len(pauses) = 1
  /\ req.delay = None
  /\ res.results.emails[2].status = "failed"

(* C10: bulk templating replaces every occurrence of the token {name} in   *)
(* subject, HTML body and text body by the recipient's name, in the        *)
(* message sent and in the ledger record, and leaves no token behind.      *)
C10_TemplateApplied ==
  InBulk =>
     /\ \A k \in 1..Len(outbox) :
          /\ outbox[k].subject = ReplaceAll(req.subject, req.recipients[k].name)
          /\ outbox[k].html = ReplaceAll(req.htmlContent, req.recipients[k].name)
          /\ ~HasToken(outbox[k].subject)
          /\ ~HasToken(outbox[k].html)
          /\ ~HasToken(outbox[k].text)
     /\ \A k \in 1..Len(emails) :
          /\ emails[k].subject = ReplaceAll(req.subject, req.recipients[k].name)
          /\ ~HasToken(emails[k].subject)
          /\ ~HasToken(emails[k].htmlContent)
          /\ ~HasToken(emails[k].textContent)


(* ================== properties: ledgers and stores ===================== *)
AllSettled == \A p \in Slots : procs[p].pc = "idle"

(* A change server.js has acknowledged is in db.json.                      *)
Present(a) ==
  CASE a.kind = "user" ->
         \E k \in 1..Len(db.users) : db.users[k].id = a.id /\ db.users[k].email = a.email
    [] a.kind = "company" ->
         \E k \in 1..Len(db.companies) : db.companies[k]._id = a.id /\ db.companies[k].user = a.user
    [] a.kind = "deleted" ->
         \E k \in 1..Len(db.companies) :
            db.companies[k]._id = a.id /\ db.companies[k].user = a.user /\ ~db.companies[k].isActive
    [] a.kind = "email" ->
         \E k \in 1..Len(db.emails) : db.emails[k]._id = a.id /\ db.emails[k].user = a.user

(* C2: access to db.json is serialized so that no update is lost: once     *)
(* all requests have finished, every record or field change that was       *)
(* answered with success is in the store.                                  *)
C2_NoLostUpdate ==
  (server = "server" /\ AllSettled) => \A a \in responses : Present(a)

(* C3: a send request that reached the Dispatcher leaves exactly one       *)
(* ledger record for the attempt, whether the send succeeded or failed.    *)
C3_OneRecordPerAttempt ==
  (server = "emailServer" /\ spc = "done" /\ handled = 1 /\ sinfo # "none") =>
     Len(logFile.logs) = 1

EmailRecordFields(e) ==
  /\ (e.sentAt # None /\ e.messageId # None) <=> e.status = "sent"
  /\ e.errorMessage # None <=> e.status = "failed"

(* C4 as amended: every Email record of routes/emails.js and of server.js  *)
(* has sentAt and messageId iff its status is sent and errorMessage iff it *)
(* is failed; an entry of the emailServer.js log, which has no sentAt, has *)
(* messageId iff its status is success and error iff it is failed.         *)
C4_LedgerFields ==
  /\ \A k \in 1..Len(emails) : EmailRecordFields(emails[k])
  /\ \A k \in 1..Len(db.emails) : EmailRecordFields(db.emails[k])
  /\ \A k \in 1..Len(logFile.logs) :
       /\ logFile.logs[k].messageId # None <=> logFile.logs[k].status = "success"
       /\ logFile.logs[k].error # None <=> logFile.logs[k].status = "failed"

C4_Witness ==
  \/ /\ server = "routes"
     /\ \E j, k \in 1..Len(emails) : emails[j].status = "sent" /\ emails[k].status = "failed"
  \/ /\ server = "emailServer"
     /\ \E j, k \in 1..Len(logFile.logs) :
          logFile.logs[j].status = "success" /\ logFile.logs[k].status = "failed"

(* C4 as stated: in every ledger, sentAt and messageId are both present    *)
(* iff the record was sent, and the error text is present iff it failed.   *)
C4_AsStated ==
  /\ \A k \in 1..Len(emails) : EmailRecordFields(emails[k])
  /\ \A k \in 1..Len(db.emails) : EmailRecordFields(db.emails[k])
  /\ \A k \in 1..Len(logFile.logs) :
       /\ ("sentAt" \in DOMAIN logFile.logs[k] /\ logFile.logs[k].messageId # None)
             <=> logFile.logs[k].status = "success"
       /\ logFile.logs[k].error # None <=> logFile.logs[k].status = "failed"

Finalized(file, k) == file.logs[k].status # "pending"

(* C5: a ledger record's status changes at most once: a finalized record   *)
(* is never changed again, and a finalize call on an id that is already    *)
(* finalized adds no entry and raises no error.                            *)
C5_FinalizeOnce ==
  [][ /\ \A k \in 1..Len(logFile.logs) :
           Finalized(logFile, k) =>
              /\ Len(logFile'.logs) >= k
              /\ logFile'.logs[k] = logFile.logs[k]
      /\ ( /\ "call" \in DOMAIN sres'
           /\ handled' = handled + 1
           /\ nextLogId' = nextLogId
           /\ \E k \in 1..Len(logFile.logs) :
                logFile.logs[k].id = sres'.id /\ Finalized(logFile, k) )
         => (Len(logFile'.logs) = Len(logFile.logs) /\ ~sres'.threw)
    ]_vars

(* C6: when the SMTP send succeeded, the API reports success for it even   *)
(* if the ledger write fails.                                              *)
C6_SendTruthWins ==
  (server = "emailServer" /\ spc = "done" /\ sinfo = "sent") => sres.status = 200


(* ================== properties: aborted bulk requests ================== *)
(* The request names no company that is stored, owned by the caller and    *)
(* active.                                                                 *)
NoUsableCompany(r) ==
  ~ \E c \in companies : c.id = r.companyId /\ c.user = Caller /\ c.isActive

(* C11: a send-bulk request whose company is unknown, owned by another     *)
(* user or inactive, or whose recipient list is empty, is answered 400 or  *)
(* 404 without any nodemailer call, any message handed to sendMail or any  *)
(* Email record.                                                           *)
C11_BulkAbortedBeforeSend ==
  (req.kind = "bulk" /\ (NoUsableCompany(req) \/ Len(req.recipients) = 0))
    => /\ net = <<>>
       /\ outbox = <<>>
       /\ inflight = {}
       /\ emails = <<>>
       /\ pc \in {"lookup", "done"}
       /\ pc = "done" => res.status \in {400, 404}

(* A bulk request with recipients for the caller's inactive company has    *)
(* been answered 404.                                                      *)
C11_Witness ==
  /\ req.kind = "bulk"
  /\ req.companyId = "c3"
  /\ Len(req.recipients) > 0
  /\ pc = "done"
  /\ res.status = 404


(* ======================= properties: no retry ========================== *)
Range(f) == {f[k] : k \in DOMAIN f}

IsSendMail(e) == e.op = "sendMail"

SendMails == SelectSeq(net, IsSendMail)

(* The sendMail calls made for request rq of server srv.                   *)
SendMailsOf(srv, rq) == {k \in DOMAIN SendMails : SendMails[k].srv = srv /\ SendMails[k].rq = rq}

SessionCreated == \E k \in DOMAIN net : net[k].op = "createTransport"

(* No request hands a message to sendMail a second time: a single send     *)
(* makes at most one sendMail call, and the k-th sendMail call of a bulk   *)
(* request is for its k-th recipient.                                      *)
C12_NoRetry ==
  IF server = "routes" /\ req.kind = "bulk"
  THEN /\ Len(SendMails) <= Len(req.recipients)
       /\ \A k \in DOMAIN SendMails : SendMails[k].to = req.recipients[k].email
  ELSE \A e \in Range(SendMails) : Cardinality(SendMailsOf(e.srv, e.rq)) <= 1

(* C12: delivery errors are never retried: a single send makes at most one *)
(* sendMail call whatever its outcome, and once a bulk request that        *)
(* obtained its mail session has been answered, every recipient of the     *)
(* request has been handed to sendMail exactly once.                       *)
C12_AttemptedExactlyOnce ==
  /\ C12_NoRetry
  /\ (server = "routes" /\ req.kind = "bulk" /\ pc = "done" /\ SessionCreated)
       => Len(SendMails) = Len(req.recipients)



(* ================ properties: rejection before any I/O ================= *)
(* The nodemailer calls made for request rq of server srv.                 *)
CallsOf(srv, rq) == {k \in DOMAIN net : net[k].srv = srv /\ net[k].rq = rq}

(* C13: a single-send request answered 400 (validation or configuration    *)
(* error) has made no nodemailer call: no transport was created, nothing   *)
(* was verified or handed to sendMail for it, in any of the three servers. *)
C13_RejectedBeforeIO ==
  /\ (server = "routes" /\ req.kind = "send" /\ res.status = 400)
       => CallsOf("routes", 1) = {} /\ outbox = <<>> /\ emails = <<>>
  /\ (server = "emailServer" /\ sres.status = 400)
       => CallsOf("emailServer", handled) = {}
  /\ (server = "server" /\ dres.endpoint = "POST /api/emails/send" /\ dres.status = 400)
       => CallsOf("server", dres.rq) = {}

(* server.js has answered 400 to a send through a company of unsupported   *)
(* type after an earlier request had made its nodemailer calls.            *)
C13_Witness ==
  /\ server = "server"
  /\ dres.endpoint = "POST /api/emails/send"
  /\ dres.status = 400
  /\ net # <<>>



(* ================ properties: custom connection profile ================ *)
(* A stored port number that is an integer in 1..65535.                    *)
IntegerPort(n) == ~n.nan /\ ~n.frac /\ n.val >= 1 /\ n.val <= PortMax

(* A port as entered that is present and is an integer in 1..65535.        *)
IntegerPortText(v) == v.present /\ v.digits /\ v.tail = "" /\ v.lead >= 1 /\ v.lead <= PortMax

(* C14: a transport is created for a custom company only if the company    *)
(* has an smtpHost and an smtpPort that is an integer in 1..65535;         *)
(* otherwise resolving the profile fails and no transport is created.      *)
C14_CustomProfileValidated ==
  \A k \in DOMAIN net :
    net[k].op = "createTransport" =>
      /\ (net[k].srv = "routes" /\ net[k].company.type = "custom")
           => net[k].company.smtpHost # "" /\ IntegerPort(net[k].company.smtpPort)
      /\ (net[k].srv = "server" /\ net[k].company.emailSettings.type = "custom")
           => /\ net[k].company.emailSettings.smtpHost # ""
              /\ IntegerPortText(net[k].company.emailSettings.smtpPort)



(* C15: every transport created for a custom company has secure equal to   *)
(* (useSSL or port = 465) and certificate validation equal to useTLS.      *)
C15_SecureAndTlsFlags ==
  \A k \in DOMAIN net :
    net[k].op = "createTransport" =>
      /\ (net[k].srv = "routes" /\ net[k].company.type = "custom")
           => /\ net[k].options.secure
                   = (net[k].company.useSSL \/ net[k].company.smtpPort = Num(465))
              /\ net[k].options.rejectUnauthorized = net[k].company.useTLS
      /\ (net[k].srv = "server" /\ net[k].company.emailSettings.type = "custom")
           => /\ net[k].options.secure
                   = (\/ net[k].company.emailSettings.useSSL
                      \/ ParseInt(net[k].company.emailSettings.smtpPort) = Num(465))
              /\ net[k].options.rejectUnauthorized = net[k].company.emailSettings.useTLS



(* ================== properties: company name uniqueness ================ *)
(* The active companies of db.json (server.js), by position.               *)
ActiveIndices == {k \in DOMAIN db.companies : db.companies[k].isActive}

(* C16: no two active companies of the same user have the same name, in    *)
(* db.json (server.js) and in the Company collection (companies router).   *)
C16_UniqueActiveNames ==
  /\ \A j, k \in ActiveIndices :
       (j # k /\ db.companies[j].user = db.companies[k].user)
         => db.companies[j].name # db.companies[k].name
  /\ \A c1, c2 \in companies :
       (c1 # c2 /\ c1.isActive /\ c2.isActive /\ c1.user = c2.user)
         => c1.name # c2.name



(* ===================== properties: company create ====================== *)
(* The user has an active company of that name in db.json.                 *)
NameInUse(user, name) ==
  \E k \in DOMAIN db.companies :
     /\ db.companies[k].user = user
     /\ db.companies[k].name = name
     /\ db.companies[k].isActive

(* The user has an active company of that name in the Company collection.  *)
CoNameInUse(user, name) ==
  \E c \in companies : c.user = user /\ c.name = name /\ c.isActive

(* server.js answers a create: 400 and db.json unchanged when the caller   *)
(* has an active company of the name, otherwise 201 and the company is     *)
(* appended, whatever inactive companies and other users' companies exist. *)
DbCreateAnswered ==
  (dres' # dres /\ dres'.endpoint = "POST /api/companies") =>
     IF NameInUse(dres'.user, dres'.body[1].name)
     THEN dres'.status = 400 /\ db' = db
     ELSE /\ dres'.status = 201
          /\ dres'.body[1].isActive
          /\ db' = [db EXCEPT !.companies = Append(@, dres'.body[1])]

(* The companies router looks the trimmed name up among the caller's       *)
(* active companies, and answers a create whose lookup found one with 400  *)
(* without writing; one whose lookup found none is not refused for its     *)
(* name.                                                                   *)
CoCreateAnswered ==
  \A p \in Slots :
    /\ (cprocs[p].pc = "idle" /\ cprocs'[p].pc = "create")
         => cprocs'[p].existing = CoNameInUse(cprocs'[p].user, Trim(cprocs'[p].name))
    /\ (cprocs[p].pc = "create" /\ cprocs'[p].pc = "idle")
         => IF cprocs[p].existing
            THEN /\ cres'.status = 400
                 /\ cres'.error = "A company with this name already exists"
                 /\ companies' = companies
            ELSE /\ cres'.error # "A company with this name already exists"
                 /\ \/ cres'.status = 201 /\ companies' = companies \cup cres'.body
                    \/ cres'.status = 400 /\ companies' = companies

(* C17: a create whose name is that of an active company of the caller is  *)
(* answered 400 and leaves the store unchanged; a name used only by        *)
(* soft-deleted companies or by other users' companies does not block the  *)
(* create.                                                                 *)
C17_CreateNameCheck == [][DbCreateAnswered /\ CoCreateAnswered]_vars

(* server.js has refused a create whose name the caller uses for an active *)
(* company created after the soft-delete of an earlier company of that     *)
(* name.                                                                   *)
C17_Witness ==
  /\ server = "server"
  /\ dres.endpoint = "POST /api/companies"
  /\ dres.status = 400
  /\ \E j, k \in DOMAIN db.companies :
       /\ j < k
       /\ ~db.companies[j].isActive
       /\ db.companies[k].isActive
       /\ db.companies[j].user = dres.user
       /\ db.companies[k].user = dres.user
       /\ db.companies[j].name = dres.body[1].name
       /\ db.companies[k].name = dres.body[1].name



(* =================== properties: company round trip ==================== *)
(* The positions in db.json of the records with that id and owner.         *)
StoredAs(id, user) ==
  {k \in DOMAIN db.companies : db.companies[k]._id = id /\ db.companies[k].user = user}

(* Those of them the active-companies list of the owner shows.             *)
ListedAs(id, user) == {k \in StoredAs(id, user) : db.companies[k].isActive}

(* C18: a company whose create was answered 201 is in its owner's list of  *)
(* active companies exactly once; once its soft-delete has been answered   *)
(* 200 it is not in the list and its record is still stored, inactive.     *)
C18_CreateListDelete ==
  server = "server" =>
    \A a \in responses :
      a.kind = "company" =>
        IF [kind |-> "deleted", id |-> a.id, user |-> a.user] \in responses
        THEN /\ ListedAs(a.id, a.user) = {}
             /\ StoredAs(a.id, a.user) # {}
        ELSE Cardinality(ListedAs(a.id, a.user)) = 1



(* ===================== properties: ownership =========================== *)
(* The company and email records of db.json that belong to a user.         *)
OwnedBy(data, u) ==
  LET Mine(e) == e.user = u
  IN [companies |-> SelectSeq(data.companies, Mine), emails |-> SelectSeq(data.emails, Mine)]

Owners(data) ==
  {data.companies[k].user : k \in DOMAIN data.companies}
    \cup {data.emails[k].user : k \in DOMAIN data.emails}

(* The step leaves the records of every user other than a as they were.    *)
OthersUntouched(a) == \A u \in Owners(db) \ {a} : OwnedBy(db', u) = OwnedBy(db, u)

(* C19: a step of a request authenticated as user A, whether the request   *)
(* is handled in one step or resumes after its await, leaves the company   *)
(* and email records of every other user unchanged, and the records it     *)
(* returns all belong to A.                                                *)
C19_OwnershipScoped ==
  [][ /\ \A p \in Slots :
           (procs[p].pc = "send" /\ procs'[p].pc = "idle") => OthersUntouched(procs[p].user)
      /\ (dres' # dres /\ procs' = procs) => OthersUntouched(dres'.user)
      /\ dres' # dres => \A k \in DOMAIN dres'.body :
                            "user" \in DOMAIN dres'.body[k] => dres'.body[k].user = dres'.user
    ]_vars



(* ======================= properties: credentials ======================= *)
Uncredentialed ==
  server = "emailServer" /\ sreq # NoReq /\ AuthenticateRequest(sreq.headers) # 0

(* A request without a valid credential causes no nodemailer call and no   *)
(* entry in the log file.                                                  *)
NoEffectWithoutCredential ==
  Uncredentialed => CallsOf("emailServer", handled) = {} /\ slogId = 0

(* C20: a request to emailServer.js that carries no valid credential is    *)
(* answered 401 or 403 at once, and it causes no nodemailer call and no    *)
(* entry in the log file.                                                  *)
C20_CredentialRequired ==
  /\ NoEffectWithoutCredential
  /\ Uncredentialed => spc = "done" /\ sres.status \in {401, 403}


(* ======================= properties: rate limits ======================= *)
(* The limiters of the endpoint's chain that are stricter than the general *)
(* one and count per minute.                                               *)
SendLimitersOf(e) ==
  {k \in DOMAIN LimiterChain(e) :
     /\ LimiterMax(LimiterChain(e)[k]) < GeneralLimiterMax
     /\ LimiterWindow(LimiterChain(e)[k]) = EmailWindowMinutes}

(* C21: the send requests of a client that reach the handler of a send     *)
(* endpoint within one minute have all been counted by a per-minute        *)
(* limiter stricter than the general one, and are at most its max.         *)
C21_SendThrottled ==
  \A e \in SendEndpoints, c \in Clients :
    served[e][c] > 0 =>
      \E k \in SendLimitersOf(e) :
        /\ served[e][c] <= lhits[LimiterChain(e)[k]][c].count
        /\ served[e][c] <= LimiterMax(LimiterChain(e)[k])



(* ======================= properties: account secret ==================== *)
(* The passwords that send requests carry.                                 *)
AccountSecrets == {r.password : r \in SrvRequests}

(* The entry keeps an account secret in one of its fields.                 *)
KeepsSecret(entry) ==
  "password" \in DOMAIN entry /\ entry.password \in AccountSecrets

(* No entry of email-logs.json keeps an account secret.                    *)
SecretNotPersisted == \A k \in DOMAIN logFile.logs : ~KeepsSecret(logFile.logs[k])

(* No answer of GET /api/logs carries an entry that keeps an account       *)
(* secret.                                                                 *)
SecretNotReturned ==
  (sres.status = 200 /\ "body" \in DOMAIN sres) =>
     \A k \in DOMAIN sres.body.logs : ~KeepsSecret(sres.body.logs[k])

(* C22: the SMTP password of a send request is in no entry of the log      *)
(* file and in no body returned by the log read endpoint.                  *)
C22_SecretNeverLogged == SecretNotPersisted /\ SecretNotReturned



(* ======================= properties: error texts ======================= *)
(* The messages the catch block of /api/send-email has of its own.         *)
UserSafeMessages == {<<"A">>, <<"C">>, <<"E">>, <<"T">>, <<"F">>}

(* The texts of the exceptions nodemailer raises.                          *)
ProviderTexts == {e.message : e \in SmtpErrors}

(* C23: the response to a send request whose verify or sendMail failed     *)
(* carries one of the fixed user-safe messages and never the text of the   *)
(* provider's exception.                                                   *)
C23_OnlyTranslatedMessages ==
  [][(SrvVerifyFail \/ SrvSendFail) =>
       /\ sres'.status = 500
       /\ sres'.error \in UserSafeMessages
       /\ sres'.error \notin ProviderTexts]_vars



(* ======================= properties: email history ===================== *)
(* The caller's records that match the company and status of the query.    *)
MatchingRecords(q) ==
  {e \in Range(hemails) : /\ e.user = Caller
                          /\ (q.companyId # "" => e.company = q.companyId)
                          /\ (q.status # "" => e.status = q.status)}

(* They listed newest first by creation time.                              *)
NewestFirst(S) ==
  CHOOSE s \in [1..Cardinality(S) -> S] :
    \A a, b \in 1..Cardinality(S) : a < b => s[a].createdAt > s[b].createdAt

PageOf(q) == IF q.page.present THEN q.page.lead ELSE DefaultPage

PageSizeOf(q) == IF q.limit.present THEN q.limit.lead ELSE DefaultLimit

(* The records at offsets (p-1)*n .. p*n-1 of that list.                    *)
ExpectedPage(q) ==
  LET all == NewestFirst(MatchingRecords(q))
      first == (PageOf(q) - 1) * PageSizeOf(q)
      last == IF PageOf(q) * PageSizeOf(q) < Len(all) THEN PageOf(q) * PageSizeOf(q) ELSE Len(all)
  IN IF first >= last THEN <<>> ELSE [k \in 1..(last - first) |-> all[first + k]]

(* C24: the history query answers with exactly the caller's matching       *)
(* records at offsets (p-1)*n .. p*n-1 of the newest-first ordering.       *)
C24_PageOfHistory ==
  hres.status = 200 => hres.emails = ExpectedPage(hquery)

(* The router's answer alone.                                              *)
RoutesPageOfHistory ==
  (hres.status = 200 /\ hres.endpoint = "routes GET /") => hres.emails = ExpectedPage(hquery)



(* ======================= properties: statistics ======================== *)
DaysOf(q) == IF q.days.present THEN q.days.lead ELSE DefaultDays

(* The caller's records, of the company asked for if any, created within   *)
(* the trailing days of the query.                                         *)
RecordsInWindow(q) ==
  {k \in DOMAIN hemails : /\ hemails[k].user = Caller
                          /\ (q.companyId # "" => hemails[k].company = q.companyId)
                          /\ Today - hemails[k].createdAt <= DaysOf(q)}

(* C25: statsOverview counts exactly the caller's records of the trailing  *)
(* days (30 unless given), of the one company if given, and totalCompanies *)
(* is the number of the caller's active companies.                         *)
C25_StatsWindow ==
  hres.status = 200 =>
    /\ hres.totalEmails = Cardinality(RecordsInWindow(hquery))
    /\ hres.totalCompanies = Cardinality({c \in companies : c.user = Caller /\ c.isActive})

(* A record of 40 days ago is left out of the default window and counted   *)
(* in the window of 45 days.                                               *)
C25_Witness ==
  /\ hres.status = 200
  /\ hquery.days = PortText(45, "")
  /\ hquery.companyId = ""
  /\ \E k \in DOMAIN hemails : hemails[k].user = Caller /\ hemails[k].createdAt = Today - 40
  /\ \E k \in DOMAIN hemails : hemails[k].user = Caller /\ hemails[k].createdAt = Today - 46
  /\ hres.totalEmails = 1
  /\ hres.totalCompanies = 3



(* ======================= properties: company update ==================== *)
(* The sub-fields of a sub-document that the body supplies.                *)
Supplied(given) == IF given = None THEN {} ELSE DOMAIN given[1]

(* Every sub-field the body does not supply is as it was.                  *)
SubFieldsKept(before, after, given) ==
  \A k \in DOMAIN before \ Supplied(given) : k \in DOMAIN after /\ after[k] = before[k]

(* Every sub-field the body supplies has the value supplied.               *)
SubFieldsSet(after, given) ==
  \A k \in Supplied(given) : k \in DOMAIN after /\ after[k] = given[1][k]

(* C26: an accepted update changes the supplied fields only: the           *)
(* emailSettings and senderInfo sub-fields that the body leaves out keep   *)
(* their values, and id, owner and (unless the body sets it) isActive are  *)
(* unchanged.                                                              *)
C26_PartialMerge ==
  ures.status = 200 =>
    /\ SubFieldsKept(ures.before.emailSettings, ures.company.emailSettings, ubody.emailSettings)
    /\ SubFieldsKept(ures.before.senderInfo, ures.company.senderInfo, ubody.senderInfo)
    /\ SubFieldsSet(ures.company.emailSettings, ubody.emailSettings)
    /\ SubFieldsSet(ures.company.senderInfo, ubody.senderInfo)
    /\ (ubody.name = <<>> => ures.company.name = ures.before.name)
    /\ (ubody.description = None => ures.company.description = ures.before.description)
    /\ ures.company.id = ures.before.id
    /\ ures.company.user = ures.before.user
    /\ (ubody.isActive = None => ures.company.isActive = ures.before.isActive)

(* The update of server.js alone.                                          *)
DbPartialMerge == ures.endpoint = "server PUT /api/companies/:id" => C26_PartialMerge



(* ======================= properties: pending entries =================== *)
(* No handler of /api/send-email is between its request and its response.  *)
NoSendInFlight == spc \in {"idle", "done"}

PendingEntries == {k \in DOMAIN logFile.logs : logFile.logs[k].status = "pending"}

(* C27: when no send request is in flight, no entry of the log has status  *)
(* pending: every entry a request inserted has been finalized by the time  *)
(* its response is produced.                                               *)
C27_NoPendingAfterResponse == NoSendInFlight => PendingEntries = {}



(* ======================= properties: soft delete ======================= *)
(* The transports created for a company that was soft-deleted when the     *)
(* request read it.                                                        *)
InactiveTransports ==
  {k \in DOMAIN net : net[k].op = "createTransport" /\ ~net[k].company.isActive}

(* No request sets isActive of a stored company from false to true.        *)
NeverReactivated ==
  [][\A k \in DOMAIN db.companies :
       (k \in DOMAIN db.companies' /\ ~db.companies[k].isActive) => ~db.companies'[k].isActive]_vars

(* C28: no send request makes an SMTP call for a company whose isActive is *)
(* false when the request looks it up.                                     *)
C28_InactiveNeverSends == InactiveTransports = {}


(* ======================= properties: log counters ====================== *)
EntriesWith(st) == {k \in DOMAIN logFile.logs : logFile.logs[k].status = st}

(* C29: the counters of email-logs.json agree with its entries:            *)
(* totalEmails is their number, successfulEmails, failedEmails and         *)
(* pendingEmails are the numbers of entries of each status, and the three  *)
(* add up to totalEmails.                                                  *)
C29_CountersAgree ==
  /\ logFile.totalEmails = Len(logFile.logs)
  /\ logFile.successfulEmails = Cardinality(EntriesWith("success"))
  /\ logFile.failedEmails = Cardinality(EntriesWith("failed"))
  /\ logFile.pendingEmails = Cardinality(EntriesWith("pending"))
  /\ logFile.successfulEmails + logFile.failedEmails + logFile.pendingEmails = logFile.totalEmails

(* A finalized entry and a pending one after attempts were logged and one  *)
(* was updated.                                                            *)
C29_Witness ==
  /\ server = "logApi"
  /\ EntriesWith("success") # {}
  /\ EntriesWith("pending") # {}
  /\ logFile.totalEmails = 2
  /\ logFile.pendingEmails = 1


(* ======================= properties: EmailLogs ========================= *)
(* The email request issued last.                                          *)
LatestRequest == vissued[Len(vissued)]

(* An emails state that changes takes the list of the current request or   *)
(* the empty list.                                                         *)
SupersededNeverApplied ==
  [][vemails' # vemails => vemails' \in {ListOf(requestIdRef), NoList}]_vars

(* With every request settled, the list shown is the one of the request    *)
(* issued last, which asked for the selected company.                      *)
SettledShowsLatest ==
  (vpc = "mounted" /\ vflight = {} /\ vissued # <<>>) =>
     /\ LatestRequest.id[1] = selectedCompany
     /\ vemails = IF LatestRequest.outcome = "failed" THEN NoList ELSE ListOf(LatestRequest.id)

(* loading is false only when the current request is not in flight.        *)
LoadingWhileInFlight ==
  (vpc = "mounted" /\ ~loading) => \A r \in vflight : r.kind = "emails" => r.id # requestIdRef

(* C30: the list of a superseded request is never shown; once every        *)
(* request has settled the list shown is the result of the latest request  *)
(* for the selected company; loading is false only when no current request *)
(* is in flight.                                                           *)
C30_LatestResultShown == SettledShowsLatest /\ LoadingWhileInFlight


====
